---- MODULE Spec2Model ----
(***************************************************************************)
(* A model of the Wilsonart laminate index scrapers: the record merge      *)
(* engine of wilsonart-scrapeTFL.js (mergeRecordsNoErase and its helpers)  *)
(* and the read-merge-write cycles of the scraper variants.                *)
(*                                                                         *)
(* JSON values are modelled at the level of the persisted file:            *)
(*   - a record is a function from AllKeys to values, a key that the       *)
(*     object does not have maps to Absent;                                *)
(*   - a value is [t, s, a, o]: its type tag, its string (for strings and  *)
(*     booleans), its elements (for arrays), its properties (for objects); *)
(*   - an array element is [k, s, code, name]: a string or a finish        *)
(*     object {code?, name?}; a property that is undefined is Undef.       *)
(***************************************************************************)
EXTENDS Integers, Sequences, FiniteSets, TLC

\* ---------------------------------------------------------------------
\* Bounds of the model
\* ---------------------------------------------------------------------
\* longest array of labels an old record of the merge holds under a canonical key
MaxArrLen == 2
\* longest array of labels under an alias key, and under any key of a fragment
MaxFragLen == 1
\* longest finish array of an input record of the merge
MaxFinLen == 1

\* ---------------------------------------------------------------------
\* JSON values
\* ---------------------------------------------------------------------
Undef == "<undefined>"

ObjKeys == {"width", "height"}

NoObj == [x \in ObjKeys |-> Undef]

Absent == [t |-> "absent", s |-> "", a |-> <<>>, o |-> NoObj]

Null == [t |-> "null", s |-> "", a |-> <<>>, o |-> NoObj]

Str(s) == [t |-> "str", s |-> s, a |-> <<>>, o |-> NoObj]

Bool(s) == [t |-> "bool", s |-> s, a |-> <<>>, o |-> NoObj]

Arr(a) == [t |-> "arr", s |-> "", a |-> a, o |-> NoObj]

Obj(o) == [t |-> "obj", s |-> "", a |-> <<>>, o |-> o]

StrE(s) == [k |-> "str", s |-> s, code |-> Undef, name |-> Undef]

BoolE(s) == [k |-> "bool", s |-> s, code |-> Undef, name |-> Undef]

FinE(c, n) == [k |-> "obj", s |-> "", code |-> c, name |-> n]

\* ---------------------------------------------------------------------
\* Keys of a product record
\* ---------------------------------------------------------------------
ARRAY_FIELDS ==
  << "design_groups", "species", "cut", "match", "shade", "colors",
     "design_collections", "performance_enhancements", "specialty_features" >>

SCALAR_FIELDS == << "name", "product-link", "surface-group", "description", "no_repeat" >>

FIELD_ALIASES ==
  [ k \in {"colors", "product-link", "surface-group",
           "performance_enhancements", "specialty_features"} |->
      CASE k = "colors" -> << "colors", "color" >>
        [] k = "product-link" -> << "product-link", "product_link" >>
        [] k = "surface-group" -> << "surface-group", "surface_group" >>
        [] k = "performance_enhancements" ->
             << "performance_enhancements", "performace_enchancments" >>
        [] k = "specialty_features" -> << "specialty_features", "specality_features" >> ]

getFieldVariants(canonicalKey) ==
  IF canonicalKey \in DOMAIN FIELD_ALIASES THEN FIELD_ALIASES[canonicalKey]
  ELSE << canonicalKey >>

Range(seq) == { seq[i] : i \in DOMAIN seq }

AllKeys ==
  {"code", "finish", "texture_image_pixels", "texture_image_url"}
    \cup Range(ARRAY_FIELDS) \cup Range(SCALAR_FIELDS)
    \cup UNION { Range(FIELD_ALIASES[k]) : k \in DOMAIN FIELD_ALIASES }

EmptyRec == [k \in AllKeys |-> Absent]

\* `k in rec`
HasKey(rec, k) == rec[k].t # "absent"

KeysOf(rec) == { k \in AllKeys : HasKey(rec, k) }

\* ---------------------------------------------------------------------
\* String primitives, tabulated over the strings the model draws
\* ---------------------------------------------------------------------
\* String.prototype.trim
trim(s) ==
  CASE s = " " -> ""
    [] s = " Y0385" -> "Y0385"
    [] OTHER -> s

\* String.prototype.toUpperCase
toUpperCase(s) ==
  CASE s = "y0385" -> "Y0385"
    [] s = "y 0385" -> "Y 0385"
    [] s = "ab" -> "AB"
    [] s = "Red" -> "RED"
    [] s = "red" -> "RED"
    [] s = "Blue" -> "BLUE"
    [] s = "Fine Velvet" -> "FINE VELVET"
    [] s = "fine velvet" -> "FINE VELVET"
    [] s = "Matte" -> "MATTE"
    [] s = "aged" -> "AGED"
    [] s = "Aged" -> "AGED"
    [] s = "bronze" -> "BRONZE"
    [] s = "Bronze" -> "BRONZE"
    [] s = "north" -> "NORTH"
    [] s = "North" -> "NORTH"
    [] s = "bridge" -> "BRIDGE"
    [] s = "Bridge" -> "BRIDGE"
    [] s = "Aged Bronze" -> "AGED BRONZE"
    [] s = "jpg" -> "JPG"
    [] OTHER -> s

\* String.prototype.toLowerCase
toLowerCase(s) ==
  CASE s = "Fine Velvet" -> "fine velvet"
    [] s = "Matte" -> "matte"
    [] s = "Red" -> "red"
    [] s = "Blue" -> "blue"
    [] s = "Oak" -> "oak"
    [] s = "Elm" -> "elm"
    [] s = "TFL" -> "tfl"
    [] s = "HPL" -> "hpl"
    [] OTHER -> s

\* x == null (null or undefined)
isNullish(v) == v.t \in {"absent", "null"}

\* String(e) of an array element
ElemString(e) == IF e.k = "obj" THEN "[object Object]" ELSE e.s

\* String(v); of an array of two or more elements only the separator is
\* kept, the callers compare the trimmed result with "" and nothing else
StringOf(v) ==
  CASE v.t = "str" -> v.s
    [] v.t = "bool" -> v.s
    [] v.t = "obj" -> "[object Object]"
    [] v.t = "arr" ->
         IF Len(v.a) = 0 THEN ""
         ELSE IF Len(v.a) = 1 THEN ElemString(v.a[1]) ELSE ","
    [] v.t = "null" -> "null"
    [] OTHER -> "undefined"

\* x != null && String(x).trim() !== ""
hasValue(v) == ~isNullish(v) /\ trim(StringOf(v)) # ""

\* JavaScript truthiness of a value
truthy(v) ==
  CASE v.t = "str" -> v.s # ""
    [] v.t = "bool" -> v.s = "true"
    [] v.t \in {"arr", "obj"} -> TRUE
    [] OTHER -> FALSE

\* truthiness of an optional string property
truthyStr(s) == s # Undef /\ s # ""

\* ---------------------------------------------------------------------
\* Sequence helpers
\* ---------------------------------------------------------------------
\* the elements of seq at the indices in keep, in order
SubSeqAt(seq, keep) ==
  [ i \in 1..Cardinality(keep) |->
      seq[CHOOSE j \in keep : Cardinality({ m \in keep : m <= j }) = i] ]

\* keep the first element of every key
DedupBy(seq, K(_)) ==
  SubSeqAt(seq, { i \in DOMAIN seq : \A j \in 1..(i - 1) : K(seq[j]) # K(seq[i]) })

RECURSIVE Flatten(_)
Flatten(seqs) == IF seqs = <<>> THEN <<>> ELSE Head(seqs) \o Flatten(Tail(seqs))

IsPlainObject(v) == v.t = "obj"

\* ---------------------------------------------------------------------
\* Merge helpers of wilsonart-scrapeTFL.js
\* ---------------------------------------------------------------------
\* elements of an array kept by .map(...).filter(Boolean) in normalizeFinishArray
FinishOfElem(it) == IF it.k = "obj" THEN FinE(it.code, it.name) ELSE FinE(Undef, it.s)

normalizeFinishArray(v) ==
  IF ~truthy(v) THEN <<>>
  ELSE IF v.t = "arr" THEN
    LET kept == SelectSeq(v.a, LAMBDA it : it.k \in {"obj", "str"})
    IN [ i \in DOMAIN kept |-> FinishOfElem(kept[i]) ]
  ELSE IF IsPlainObject(v) THEN <<>>   \* Object.values of {width, height}: no plain object among them
  ELSE IF v.t = "str" THEN << FinE(Undef, v.s) >>
  ELSE <<>>

\* key(it) of unionFinish: `${c}|${n}`
finishKey(it) ==
  << IF truthyStr(it.code) THEN trim(it.code) ELSE "",
     IF truthyStr(it.name) THEN toLowerCase(trim(it.name)) ELSE "" >>

unionFinish(aArr, bArr) == DedupBy(aArr \o bArr, finishKey)

\* a scalar wrapped as the single element of an array: [a]
ElemOfValue(v) ==
  CASE v.t = "str" -> StrE(v.s)
    [] v.t = "bool" -> BoolE(v.s)
    [] OTHER -> FinE(Undef, Undef)

\* a conversion that drops a value that is no array
toArrayGeneric_arraysOnly(v) == IF v.t = "arr" THEN v.a ELSE <<>>

\* Array.isArray(a) ? a : a == null ? [] : [a]
toArrayGeneric(v) ==
  IF v.t = "arr" THEN v.a ELSE IF isNullish(v) THEN <<>> ELSE << ElemOfValue(v) >>

\* typeof val === "object" ? JSON.stringify(val) : String(val)
genericKey(val) ==
  IF val.k = "obj" THEN << "json", val.code, val.name >> ELSE << "string", val.s, "" >>

unionArraysGeneric_noDedup(a, b) == toArrayGeneric(a) \o toArrayGeneric(b)

unionArraysGeneric(a, b) == DedupBy(toArrayGeneric(a) \o toArrayGeneric(b), genericKey)

collectArrayFromVariants_canonicalOnly(rec, canonicalKey) ==
  LET v == rec[canonicalKey]
  IN IF v.t = "arr" THEN v.a ELSE IF v.t = "str" THEN << StrE(v.s) >> ELSE <<>>

collectArrayFromVariants(rec, canonicalKey) ==
  LET keys == getFieldVariants(canonicalKey)
  IN Flatten([ i \in DOMAIN keys |->
       LET v == rec[keys[i]]
       IN IF v.t = "arr" THEN v.a ELSE IF v.t = "str" THEN << StrE(v.s) >> ELSE <<>> ])

\* Array.from(new Set(xs)): strings are equal by value, objects by reference
\* (every object of a parsed file is a different reference)
uniqueBySet(xs) ==
  SubSeqAt(xs, { i \in DOMAIN xs :
                   xs[i].k = "obj" \/ \A j \in 1..(i - 1) : xs[j] # xs[i] })

\* x != null && `${x}`.trim() !== ""
nonBlankElem(x) == trim(ElemString(x)) # ""

\* JSON.parse(JSON.stringify(oldRec || {})): the values of the model are JSON
\* values already (an undefined property is an absent one), so the copy
\* has the same keys and values
JsonClone_empty(rec) == EmptyRec

JsonClone(rec) == rec

\* String((newRec.code || oldRec.code || "")).toUpperCase()
mergedCode(oldRec, newRec) ==
  toUpperCase(IF truthy(newRec["code"]) THEN StringOf(newRec["code"])
              ELSE IF truthy(oldRec["code"]) THEN StringOf(oldRec["code"])
              ELSE "")

\* the scalar loop: out[k] after the iteration for k
mergeScalar(out, newRec, k) ==
  LET variants == getFieldVariants(k)
      hasAny == \E i \in DOMAIN variants : hasValue(out[variants[i]])
  IN IF ~hasAny /\ hasValue(newRec[k]) THEN newRec[k] ELSE out[k]

mergeArrayBucket_newOnly(out, newRec, key) ==
  LET fromNew == collectArrayFromVariants(newRec, key)
      merged == uniqueBySet(SelectSeq(fromNew, nonBlankElem))
  IN IF Len(merged) > 0 THEN Arr(merged) ELSE out[key]

\* the canonical array loop: out[key] after the iteration for key
mergeArrayBucket(out, newRec, key) ==
  LET fromOld == collectArrayFromVariants(out, key)
      fromNew == collectArrayFromVariants(newRec, key)
      merged == uniqueBySet(SelectSeq(fromOld \o fromNew, nonBlankElem))
  IN IF Len(merged) > 0 THEN Arr(merged) ELSE out[key]

\* the finish step: out.finish afterwards
mergeFinish(out, newRec) ==
  LET oldFin == normalizeFinishArray(out["finish"])
      newFin == normalizeFinishArray(newRec["finish"])
      finMerged == unionFinish(oldFin, newFin)
  IN IF Len(finMerged) > 0 THEN Arr(finMerged) ELSE out["finish"]

mergeOtherKey_skipUnknown(existing, v) ==
  IF existing.t # "absent" THEN
    IF existing.t = "arr" \/ v.t = "arr" THEN Arr(unionArraysGeneric(existing, v))
    ELSE IF IsPlainObject(existing) /\ IsPlainObject(v) THEN
      Obj([ x \in ObjKeys |-> IF existing.o[x] # Undef THEN existing.o[x] ELSE v.o[x] ])
    ELSE IF ~hasValue(existing) THEN v ELSE existing
  ELSE existing

mergeOtherKey_newWins(existing, v) ==
  IF existing.t # "absent" THEN
    IF existing.t = "arr" \/ v.t = "arr" THEN Arr(unionArraysGeneric(existing, v))
    ELSE IF IsPlainObject(existing) /\ IsPlainObject(v) THEN
      Obj([ x \in ObjKeys |-> IF existing.o[x] # Undef THEN existing.o[x] ELSE v.o[x] ])
    ELSE v
  ELSE v

\* the loop over Object.entries(newRec): out[k] after the iteration for a key
\* k of newRec other than code, existing = out[k] before it, v = newRec[k]
mergeOtherKey(existing, v) ==
  IF existing.t # "absent" THEN
    IF existing.t = "arr" \/ v.t = "arr" THEN Arr(unionArraysGeneric(existing, v))
    ELSE IF IsPlainObject(existing) /\ IsPlainObject(v) THEN
      Obj([ x \in ObjKeys |-> IF existing.o[x] # Undef THEN existing.o[x] ELSE v.o[x] ])
    ELSE IF ~hasValue(existing) THEN v ELSE existing
  ELSE v

\* the alias loop: out[canonical] after the iteration for canonical
mirrorAlias(out, canonical) ==
  LET aliases == FIELD_ALIASES[canonical]
      present == { i \in DOMAIN aliases : HasKey(out, aliases[i]) }
  IN IF HasKey(out, canonical) \/ present = {} THEN out[canonical]
     ELSE out[aliases[CHOOSE i \in present : \A j \in present : i <= j]]

mergeRecordsNoErase(oldRec, newRec) ==
  LET out0 == JsonClone(oldRec)
      code == mergedCode(oldRec, newRec)
      out1 == [ out0 EXCEPT !["code"] = IF code # "" THEN Str(code) ELSE @ ]
      out2 == [ k \in AllKeys |->
                  IF k \in Range(SCALAR_FIELDS) THEN mergeScalar(out1, newRec, k)
                  ELSE out1[k] ]
      out3 == [ k \in AllKeys |->
                  IF k \in Range(ARRAY_FIELDS) THEN mergeArrayBucket(out2, newRec, k)
                  ELSE out2[k] ]
      out4 == [ out3 EXCEPT !["finish"] = mergeFinish(out3, newRec) ]
      out5 == [ k \in AllKeys |->
                  IF k # "code" /\ HasKey(newRec, k) THEN mergeOtherKey(out4[k], newRec[k])
                  ELSE out4[k] ]
  IN [ k \in AllKeys |->
         IF k \in DOMAIN FIELD_ALIASES THEN mirrorAlias(out5, k) ELSE out5[k] ]

\* ---------------------------------------------------------------------
\* Product codes
\* ---------------------------------------------------------------------
\* no code: null, undefined and "" are all falsy where a code is tested
NoCode == ""

Digits == {"0", "1", "2", "3", "4", "5", "6", "7", "8", "9"}

UpperLetters ==
  {"A", "B", "C", "D", "E", "F", "G", "H", "I", "J", "K", "L", "M",
   "N", "O", "P", "Q", "R", "S", "T", "U", "V", "W", "X", "Y", "Z"}

LowerLetters ==
  {"a", "b", "c", "d", "e", "f", "g", "h", "i", "j", "k", "l", "m",
   "n", "o", "p", "q", "r", "s", "t", "u", "v", "w", "x", "y", "z"}

\* the strings that are tested as codes, and their characters
CodeStrings ==
  {"Y0385", "y0385", "Y 0385", "y 0385", "0385", "8219", "BRONZE", "bronze",
   "AGED", "aged", "NORTH", "north", "BRIDGE", "bridge", "AGED BRONZE", "AGEDBRONZE",
   "jpg", "JPG", "AB12", "4830K-07", "Y0", "BRONZE1", "12345678", "13096"}

Chars(s) ==
  CASE s = "Y0385" -> << "Y", "0", "3", "8", "5" >>
    [] s = "y0385" -> << "y", "0", "3", "8", "5" >>
    [] s = "Y 0385" -> << "Y", " ", "0", "3", "8", "5" >>
    [] s = "y 0385" -> << "y", " ", "0", "3", "8", "5" >>
    [] s = "0385" -> << "0", "3", "8", "5" >>
    [] s = "8219" -> << "8", "2", "1", "9" >>
    [] s = "BRONZE" -> << "B", "R", "O", "N", "Z", "E" >>
    [] s = "bronze" -> << "b", "r", "o", "n", "z", "e" >>
    [] s = "AGED" -> << "A", "G", "E", "D" >>
    [] s = "aged" -> << "a", "g", "e", "d" >>
    [] s = "NORTH" -> << "N", "O", "R", "T", "H" >>
    [] s = "north" -> << "n", "o", "r", "t", "h" >>
    [] s = "BRIDGE" -> << "B", "R", "I", "D", "G", "E" >>
    [] s = "bridge" -> << "b", "r", "i", "d", "g", "e" >>
    [] s = "AGED BRONZE" -> << "A", "G", "E", "D", " ", "B", "R", "O", "N", "Z", "E" >>
    [] s = "AGEDBRONZE" -> << "A", "G", "E", "D", "B", "R", "O", "N", "Z", "E" >>
    [] s = "jpg" -> << "j", "p", "g" >>
    [] s = "JPG" -> << "J", "P", "G" >>
    [] s = "AB12" -> << "A", "B", "1", "2" >>
    [] s = "4830K-07" -> << "4", "8", "3", "0", "K", "-", "0", "7" >>
    [] s = "Y0" -> << "Y", "0" >>
    [] s = "BRONZE1" -> << "B", "R", "O", "N", "Z", "E", "1" >>
    [] s = "12345678" -> << "1", "2", "3", "4", "5", "6", "7", "8" >>
    [] s = "13096" -> << "1", "3", "0", "9", "6" >>
    [] OTHER -> << >>

\* the string that has the characters cs
FromChars(cs) ==
  IF cs = << >> THEN "" ELSE CHOOSE s \in CodeStrings : Chars(s) = cs

IsSpace(c) == c = " "

\* s.replace(/\s+/g, "")
removeWhitespace(s) == FromChars(SelectSeq(Chars(s), LAMBDA c : ~IsSpace(c)))

normalizeCodeValue(value) ==
  IF isNullish(value) THEN ""
  ELSE toUpperCase(removeWhitespace(trim(StringOf(value))))

\* a validation that does not count the digits
IsCodeShaped_anyDigits(cs) ==
  /\ \A i \in DOMAIN cs : cs[i] \in UpperLetters \cup Digits
  /\ Len(cs) >= 3 /\ Len(cs) <= 7

\* CODE_ALLOWED_RE, the length and the number of digits of a code
IsCodeShaped(cs) ==
  /\ \A i \in DOMAIN cs : cs[i] \in UpperLetters \cup Digits
  /\ Len(cs) >= 3 /\ Len(cs) <= 7
  /\ Cardinality({ i \in DOMAIN cs : cs[i] \in Digits }) >= 2

isValidCodeValue(code) == code # "" /\ IsCodeShaped(Chars(code))

\* ---------------------------------------------------------------------
\* The site: tiles of the product grid, and filters
\* ---------------------------------------------------------------------
Tiles ==
  { [href |-> "https://www.wilsonart.com/aged-bronze-y0385", sku |-> "",
     codeText |-> "Aged Bronze", nameAlt |-> "Aged Bronze"],
    [href |-> "https://www.wilsonart.com/y0385", sku |-> "",
     codeText |-> "y 0385", nameAlt |-> ""],
    [href |-> "https://www.wilsonart.com/y0385-aged-bronze", sku |-> "",
     codeText |-> "Aged Bronze", nameAlt |-> "Aged Bronze"],
    [href |-> "https://www.wilsonart.com/north-bridge-8219", sku |-> "",
     codeText |-> "North Bridge", nameAlt |-> "North Bridge"],
    [href |-> "https://www.wilsonart.com/aged-bronze", sku |-> "",
     codeText |-> "Aged Bronze", nameAlt |-> "Aged Bronze"] }

\* new URL(href).pathname.split("/").filter(Boolean)
PathSegments(href) ==
  CASE href = "https://www.wilsonart.com/aged-bronze-y0385" -> << "aged-bronze-y0385" >>
    [] href = "https://www.wilsonart.com/y0385" -> << "y0385" >>
    [] href = "https://www.wilsonart.com/y0385-aged-bronze" -> << "y0385-aged-bronze" >>
    [] href = "https://www.wilsonart.com/north-bridge-8219" -> << "north-bridge-8219" >>
    [] href = "https://www.wilsonart.com/aged-bronze" -> << "aged-bronze" >>
    [] href = "https://www.wilsonart.com/north-bridge-8219?sku=Y0385" -> << "north-bridge-8219" >>
    [] href = "https://images.wilsonart.com/8219.jpg" -> << "8219.jpg" >>
    [] OTHER -> << >>

\* the values of url.searchParams in order
SearchParamValues(href) ==
  CASE href = "https://www.wilsonart.com/north-bridge-8219?sku=Y0385" -> << "Y0385" >>
    [] OTHER -> << >>

\* url.searchParams.get(key) of the first of sku, product_sku, productSku,
\* skuId that the URL has, "" when it has none
SkuParam(href) ==
  CASE href = "https://www.wilsonart.com/north-bridge-8219?sku=Y0385" -> "Y0385"
    [] OTHER -> ""

\* input.match(/[A-Za-z0-9]+/g)
AlnumRuns(input) ==
  CASE input = "aged-bronze-y0385" -> << "aged", "bronze", "y0385" >>
    [] input = "y0385" -> << "y0385" >>
    [] input = "y0385-aged-bronze" -> << "y0385", "aged", "bronze" >>
    [] input = "north-bridge-8219" -> << "north", "bridge", "8219" >>
    [] input = "aged-bronze" -> << "aged", "bronze" >>
    [] input = "Y0385" -> << "Y0385" >>
    [] input = "8219.jpg" -> << "8219", "jpg" >>
    [] OTHER -> << >>

\* segment.slice(segment.lastIndexOf("-") + 1) of a segment whose runs are
\* joined by hyphens, "" for a segment with no hyphen
HyphenTail(segment) ==
  LET runs == AlnumRuns(segment)
  IN IF Len(runs) > 1 THEN runs[Len(runs)] ELSE ""

\* str.match(/[A-Za-z0-9]{3,}(?:-[A-Za-z0-9]+)*/g)
CodeTokenMatches(str) ==
  CASE str = "y0385" -> << "y0385" >>
    [] str = "bronze" -> << "bronze" >>
    [] str = "8219" -> << "8219" >>
    [] str = "y 0385" -> << "0385" >>
    [] str = "Aged Bronze" -> << "Aged", "Bronze" >>
    [] str = "North Bridge" -> << "North", "Bridge" >>
    [] str = "aged-bronze-y0385" -> << "aged-bronze-y0385" >>
    [] str = "y0385-aged-bronze" -> << "y0385-aged-bronze" >>
    [] str = "north-bridge-8219" -> << "north-bridge-8219" >>
    [] str = "aged-bronze" -> << "aged-bronze" >>
    [] str = "Y0385" -> << "Y0385" >>
    [] OTHER -> << >>

extractCodeCandidate(input) ==
  LET matches == CodeTokenMatches(trim(input))
  IN IF trim(input) = "" \/ matches = << >> THEN NoCode
     ELSE toUpperCase(matches[Len(matches)])

\* the first of the candidates that is a code
FirstCode(a, b, c) == IF a # NoCode THEN a ELSE IF b # NoCode THEN b ELSE c

\* the candidate one path segment gives: the part after its last hyphen,
\* else the segment itself
SegmentCode(segment) ==
  FirstCode(IF HyphenTail(segment) # "" THEN extractCodeCandidate(HyphenTail(segment)) ELSE NoCode,
            extractCodeCandidate(segment), NoCode)

\* the last element of codes that is a code
LastCode(codes) ==
  LET hits == { i \in DOMAIN codes : codes[i] # NoCode }
  IN IF hits = {} THEN NoCode ELSE codes[CHOOSE i \in hits : \A j \in hits : j <= i]

SegmentCodes(parts) == [ i \in DOMAIN parts |-> SegmentCode(parts[i]) ]

\* wilsonart-scrapeTFL.js: the SKU of the query when there is one, else the
\* last path segment that gives a candidate
codeFromHref(href) ==
  FirstCode(extractCodeCandidate(SkuParam(href)), LastCode(SegmentCodes(PathSegments(href))),
            NoCode)

\* the last path segment
Slug(parts) == IF parts = << >> THEN "" ELSE parts[Len(parts)]

\* wilsonart-scrape-unfilteredTFL.js: slug.match(/-([a-z0-9]+)$/i)
codeFromHref_unfiltered(href) ==
  IF HyphenTail(Slug(PathSegments(href))) # ""
  THEN toUpperCase(HyphenTail(Slug(PathSegments(href))))
  ELSE NoCode

\* cs matches [A-Za-z]?\d{3,6}
IsSlugCodeShaped(cs) ==
  IF cs # << >> /\ cs[1] \in UpperLetters \cup LowerLetters
  THEN Len(cs) >= 4 /\ Len(cs) <= 7 /\ \A i \in 2..Len(cs) : cs[i] \in Digits
  ELSE Len(cs) >= 3 /\ Len(cs) <= 6 /\ \A i \in DOMAIN cs : cs[i] \in Digits

IsSlugCode(t) == IsSlugCodeShaped(Chars(t))

\* wilsonart-scrape.js: the SKU text of the tile, else
\* link.match(/-([A-Za-z]?\d{3,6})(?:\/|$)/i)
gridCode(tile) ==
  FirstCode(trim(tile.sku),
            IF IsSlugCode(HyphenTail(Slug(PathSegments(tile.href))))
            THEN toUpperCase(HyphenTail(Slug(PathSegments(tile.href)))) ELSE NoCode,
            NoCode)

RunsOf(parts) == Flatten([ i \in DOMAIN parts |-> AlnumRuns(parts[i]) ])

\* the tokens of the path segments, then those of the query values; no URL
\* of the model has a hash
collectTokensFromUrl(urlLike) == RunsOf(PathSegments(urlLike) \o SearchParamValues(urlLike))

\* pushCandidate: each candidate normalized, the empty ones dropped, each once
PushAll(raw) ==
  DedupBy(SelectSeq([ i \in DOMAIN raw |-> normalizeCodeValue(raw[i]) ], LAMBDA c : c # ""),
          LAMBDA c : c)

TokenValues(tokens) == [ i \in DOMAIN tokens |-> Str(tokens[i]) ]

LinkOf(product) ==
  IF truthy(product["product-link"]) THEN product["product-link"].s ELSE ""

\* a record without detail entry: detailByLink and detailByName have none
NoDetail == EmptyRec

\* the candidates the detail entry adds: its code when it differs from the
\* code of the record, the tokens of its link when the link differs, the
\* tokens of its image URL
detailCandidates(product, detail) ==
  (IF truthy(detail["code"]) /\ detail["code"] # product["code"]
   THEN << detail["code"] >> ELSE << >>) \o
  (IF truthy(detail["product-link"]) /\ detail["product-link"] # product["product-link"]
   THEN TokenValues(collectTokensFromUrl(LinkOf(detail))) ELSE << >>) \o
  (IF truthy(detail["texture_image_url"])
   THEN TokenValues(collectTokensFromUrl(detail["texture_image_url"].s)) ELSE << >>)

\* gatherCandidateCodes(product, detail): the code of the record, the tokens
\* of its link, then the candidates of the detail entry
gatherCandidates(product, detail) ==
  PushAll(<< product["code"] >> \o TokenValues(collectTokensFromUrl(LinkOf(product)))
            \o detailCandidates(product, detail))

\* the candidates of a record of the audit: the details file
\* wilsonart-tfl-laminate-details.json is written by no script and is absent
gatherCandidateCodes(product) == gatherCandidates(product, NoDetail)

FirstValid(candidates) ==
  LET valid == { i \in DOMAIN candidates : isValidCodeValue(candidates[i]) }
  IN IF valid = {} THEN NoCode
     ELSE candidates[CHOOSE i \in valid : \A j \in valid : i <= j]

\* findPreferredCode(product, detail): the first valid candidate, NoCode when
\* there is none
findPreferred(product, detail) == FirstValid(gatherCandidates(product, detail))

findPreferredCode(product) == FirstValid(gatherCandidateCodes(product))

\* ---------------------------------------------------------------------
\* Codes of wilsonart-scrape2.js
\* ---------------------------------------------------------------------
\* String(x).trim().toUpperCase().replace(/\s+/g, ""), "" for a falsy x; no
\* string of the model holds a long dash
normalizeCodeValue_scrape2(x) ==
  IF ~truthy(x) THEN "" ELSE removeWhitespace(toUpperCase(trim(StringOf(x))))

\* cs matches ^[L]?\d{3,5}[L]?$ for the letters L
IsDigitsWithLetters(cs, L) ==
  LET lo == IF cs # << >> /\ cs[1] \in L THEN 2 ELSE 1
      hi == IF Len(cs) >= lo /\ cs[Len(cs)] \in L THEN Len(cs) - 1 ELSE Len(cs)
  IN hi - lo + 1 >= 3 /\ hi - lo + 1 <= 5 /\ \A i \in lo..hi : cs[i] \in Digits

\* cs matches ^[A-Z]?\d{3,5}K-\d{2}$
IsFinishVariantShaped(cs) ==
  /\ Len(cs) >= 7
  /\ cs[Len(cs) - 3] = "K" /\ cs[Len(cs) - 2] = "-"
  /\ cs[Len(cs) - 1] \in Digits /\ cs[Len(cs)] \in Digits
  /\ LET lo == IF cs[1] \in UpperLetters THEN 2 ELSE 1
     IN Len(cs) - 4 - lo + 1 >= 3 /\ Len(cs) - 4 - lo + 1 <= 5
        /\ \A i \in lo..(Len(cs) - 4) : cs[i] \in Digits

isValidCodeValue_scrape2(s) ==
  /\ s # ""
  /\ \/ IsDigitsWithLetters(Chars(normalizeCodeValue_scrape2(Str(s))), UpperLetters)
     \/ IsFinishVariantShaped(Chars(normalizeCodeValue_scrape2(Str(s))))

\* seg.match(/[A-Za-z]?\d{3,5}(?:K-\d{2}|[A-Za-z]?)/), "" for no match
SlugCodeMatch(seg) ==
  CASE seg = "aged-bronze-y0385" -> "y0385"
    [] seg = "y0385" -> "y0385"
    [] seg = "y0385-aged-bronze" -> "y0385"
    [] seg = "north-bridge-8219" -> "8219"
    [] OTHER -> ""

codeFromHref_scrape2(href) ==
  normalizeCodeValue_scrape2(Str(SlugCodeMatch(Slug(PathSegments(href)))))

\* TRUSTED_CODE_SUFFIX_RE.test(href)
hasTrustedSuffix(href) ==
  IsDigitsWithLetters(Chars(HyphenTail(Slug(PathSegments(href)))),
                      UpperLetters \cup LowerLetters)

\* SUSPICIOUS_TILE_CODE_RE: letters only, or two digits and then letters
isSuspiciousTileCode(cs) ==
  \/ Len(cs) >= 2 /\ \A i \in DOMAIN cs : cs[i] \in UpperLetters \cup LowerLetters
  \/ /\ Len(cs) >= 5 /\ cs[1] \in Digits /\ cs[2] \in Digits
     /\ \A i \in 3..Len(cs) : cs[i] \in UpperLetters

needsDetailFetch(href, candidateCode) ==
  \/ ~hasTrustedSuffix(href)
  \/ candidateCode = ""
  \/ isSuspiciousTileCode(Chars(candidateCode))
  \/ ~isValidCodeValue_scrape2(candidateCode)

\* the code of a tile: the candidate of the tile, or the SKU the product
\* page shows (pdpSku, "" when it shows none) where the tile is not trusted
resolveWith(href, candidate, pdpSku) ==
  IF ~needsDetailFetch(href, candidate) THEN candidate
  ELSE IF pdpSku # "" THEN pdpSku ELSE candidate

resolveProductCode(tile, pdpSku) ==
  resolveWith(tile.href,
              normalizeCodeValue_scrape2(
                Str(FirstCode(codeFromHref_scrape2(tile.href), tile.codeText, tile.sku))),
              pdpSku)

\* a filter of the side bar: the site attribute and the label of the option
Filters ==
  { [attr |-> "color_swatch", label |-> "Red"],
    [attr |-> "shade", label |-> "Dark"],
    [attr |-> "pa_finish", label |-> "# 38 Fine Velvet"] }

\* wilsonart-scrapeTFL.js: site attribute -> output field
ATTR_TO_OUTPUT ==
  [ design_groups |-> "design_groups", species |-> "species", cut_new |-> "cut",
    match |-> "match", shade |-> "shade", pa_finish |-> "finish",
    performace_enchancments |-> "performance_enhancements",
    specality_features |-> "specialty_features",
    design_collections |-> "design_collections", color_swatch |-> "colors" ]

\* wilsonart-scrape.js: site attribute -> output field
ATTR_TO_OUTPUT_scrape ==
  [ design_groups |-> "design_groups", species |-> "species", cut_new |-> "cut",
    match |-> "match", shade |-> "shade", pa_finish |-> "finish",
    performace_enchancments |-> "performace_enchancments",
    specality_features |-> "specality_features",
    design_collections |-> "design_collections", color_swatch |-> "color" ]

\* t.replace(/\u00A0/g, " ").replace(/\s+/g, " ").trim()
cleanText(t) ==
  CASE t = "# 38  Fine Velvet" -> "# 38 Fine Velvet"
    [] OTHER -> trim(t)

\* "# 38 Fine Velvet" -> {code: "#38", name: "Fine Velvet"}
parseFinish(label) ==
  CASE label = "# 38 Fine Velvet" -> FinE("#38", "Fine Velvet")
    [] label = "#38 Fine Velvet" -> FinE("#38", "Fine Velvet")
    [] OTHER -> FinE(Undef, cleanText(label))

\* ---------------------------------------------------------------------
\* The in-memory store of a scraper run and the records it writes
\* ---------------------------------------------------------------------
\* A Map keyed by code is a sequence of records in insertion order; the key
\* of an entry is a function of its code. A Set of labels is an array
\* without duplicates, the Map of finishes an array of {code?, name?}.
IndexOfKey(recs, K(_), key) ==
  LET hits == { i \in DOMAIN recs : K(recs[i]) = key }
  IN IF hits = {} THEN 0 ELSE CHOOSE i \in hits : \A j \in hits : i <= j

\* map.set(key, rec): replaces the entry of the key where it is, else appends
MapSet(recs, K(_), rec) ==
  LET i == IndexOfKey(recs, K, K(rec))
  IN IF i = 0 THEN Append(recs, rec) ELSE [recs EXCEPT ![i] = rec]

\* new Map() filled by map.set(K(r), r) for the records of an array in order
MapOf(arr, K(_)) ==
  LET firsts == DedupBy(arr, K)
  IN [ i \in DOMAIN firsts |->
         arr[CHOOSE j \in DOMAIN arr :
               /\ K(arr[j]) = K(firsts[i])
               /\ \A m \in DOMAIN arr : K(arr[m]) = K(firsts[i]) => m <= j] ]

codeKey(rec) == StringOf(rec["code"])

\* wilsonart-scrapeTFL.js ensureRec: the record a new code gets
newProduct(code) ==
  [ k \in AllKeys |->
      IF k = "code" THEN Str(code)
      ELSE IF k \in Range(ARRAY_FIELDS) \cup {"finish"} THEN Arr(<< >>)
      ELSE Absent ]

\* wilsonart-scrape.js createStore: the record a new code gets
newProduct_scrape(code) ==
  [ k \in AllKeys |->
      IF k = "code" THEN Str(code)
      ELSE IF k \in {"design_groups", "species", "cut", "match", "shade", "color",
                     "finish", "performace_enchancments", "specality_features",
                     "design_collections"}
      THEN Arr(<< >>)
      ELSE Absent ]

\* if (nameAlt && !rec.name) rec.name = nameAlt; the same for the link
fillNameAndLink(rec, nameAlt, link) ==
  [ rec EXCEPT
      !["name"] = IF nameAlt # "" /\ ~truthy(@) THEN Str(nameAlt) ELSE @,
      !["product-link"] = IF link # "" /\ ~truthy(@) THEN Str(link) ELSE @ ]

\* parsed.code || parsed.name || label
finishMapKey(parsed, label) ==
  IF truthyStr(parsed.code) THEN parsed.code
  ELSE IF truthyStr(parsed.name) THEN parsed.name ELSE label

\* the label of a filter put in the bucket of a record: rec.finish.set(key,
\* parsed) unless the key is there, rec[bucket].add(label) for a Set
assignLabel(rec, bucket, label) ==
  IF bucket = "finish"
  THEN LET parsed == parseFinish(label)
           key == finishMapKey(parsed, label)
       IN IF \E i \in DOMAIN rec["finish"].a : finishMapKey(rec["finish"].a[i], label) = key
          THEN rec
          ELSE [rec EXCEPT !["finish"] = Arr(Append(@.a, parsed))]
  ELSE IF rec[bucket].t # "arr" THEN rec
  ELSE IF \E i \in DOMAIN rec[bucket].a : rec[bucket].a[i] = StrE(label) THEN rec
  ELSE [rec EXCEPT ![bucket] = Arr(Append(@.a, StrE(label)))]

\* the code wilsonart-scrapeTFL.js gives a tile
tileCode(it) ==
  FirstCode(codeFromHref(it.href), extractCodeCandidate(it.sku), extractCodeCandidate(it.codeText))

\* the record of the code, made if it is not there, gets the label
assignTile(prods, code, it, bucket, label) ==
  IF code = NoCode THEN prods
  ELSE LET i == IndexOfKey(prods, codeKey, code)
       IN IF i = 0
          THEN Append(prods, assignLabel(fillNameAndLink(newProduct(code), it.nameAlt, it.href),
                                         bucket, label))
          ELSE [prods EXCEPT ![i] = assignLabel(fillNameAndLink(@, it.nameAlt, it.href),
                                                bucket, label)]

\* the tiles of one page assigned to the bucket; a tile without code is skipped
RECURSIVE extractGridAndAssign(_, _, _, _)
extractGridAndAssign(prods, bucket, label, items) ==
  IF items = << >> THEN prods
  ELSE extractGridAndAssign(assignTile(prods, tileCode(Head(items)), Head(items), bucket, label),
                            bucket, label, Tail(items))

\* wilsonart-scrape.js: the record of the code gets the label (none for the
\* baseline, bucket "")
assignTile_scrape(prods, code, it, bucket, label) ==
  IF code = NoCode THEN prods
  ELSE LET i == IndexOfKey(prods, codeKey, code)
           labelled(rec) == IF bucket = "" THEN rec ELSE assignLabel(rec, bucket, label)
       IN IF i = 0
          THEN Append(prods, labelled(fillNameAndLink(newProduct_scrape(code), it.nameAlt, it.href)))
          ELSE [prods EXCEPT ![i] = labelled(fillNameAndLink(@, it.nameAlt, it.href))]

RECURSIVE assignItems_scrape(_, _, _, _)
assignItems_scrape(prods, bucket, label, items) ==
  IF items = << >> THEN prods
  ELSE assignItems_scrape(assignTile_scrape(prods, gridCode(Head(items)), Head(items), bucket, label),
                          bucket, label, Tail(items))

\* wilsonart-scrapeTFL.js finalizeRecord
finalizeRecord(rec) ==
  [ k \in AllKeys |->
      CASE k = "code" -> rec[k]
        [] k = "surface-group" -> IF truthy(rec[k]) THEN rec[k] ELSE Str("Laminate")
        [] k \in {"name", "product-link"} -> IF truthy(rec[k]) THEN rec[k] ELSE Absent
        [] OTHER -> IF rec[k].t = "arr" THEN rec[k] ELSE Absent ]

\* wilsonart-scrape.js finalizeRecord: a shade Set of one label is written
\* as that string
finalizeRecord_scrape(rec) ==
  [ k \in AllKeys |->
      CASE k = "code" -> rec[k]
        [] k = "surface-group" -> Str("Laminate")
        [] k \in {"name", "product-link"} -> IF truthy(rec[k]) THEN rec[k] ELSE Absent
        [] k = "shade" ->
             IF rec[k].t = "arr" /\ Len(rec[k].a) = 1 THEN Str(rec[k].a[1].s)
             ELSE IF rec[k].t = "arr" THEN rec[k] ELSE Absent
        [] OTHER -> IF rec[k].t = "arr" THEN rec[k] ELSE Absent ]

\* wilsonart-scrape-unfilteredTFL.js finalizeRecord: every other key is kept
finalizeRecord_unfiltered(rec) ==
  [ k \in AllKeys |->
      CASE k = "code" -> rec[k]
        [] k = "surface-group" -> IF truthy(rec[k]) THEN rec[k] ELSE Str("Laminate")
        [] k \in {"name", "product-link"} -> IF truthy(rec[k]) THEN rec[k] ELSE Absent
        [] OTHER -> rec[k] ]

\* wilsonart-scrape2.js ensureRec: the record a new code gets
newProduct_scrape2(code) ==
  [ k \in AllKeys |->
      IF k = "code" THEN Str(code)
      ELSE IF k = "surface-group" THEN Str("Laminate")
      ELSE IF k \in {"name", "product-link"} THEN Str("")
      ELSE IF k \in Range(ARRAY_FIELDS) \cup {"finish"} THEN Arr(<< >>)
      ELSE Absent ]

\* scrapeUnfiltered: a tile whose code resolves gets a record, its name is
\* the text of the anchor
assignTile_scrape2(prods, code, it) ==
  IF code = "" THEN prods
  ELSE IF IndexOfKey(prods, codeKey, code) = 0
  THEN Append(prods, fillNameAndLink(newProduct_scrape2(code), it.codeText, it.href))
  ELSE [prods EXCEPT ![IndexOfKey(prods, codeKey, code)] =
                       fillNameAndLink(@, it.codeText, it.href)]

RECURSIVE scrapeUnfiltered(_, _, _)
scrapeUnfiltered(prods, items, pdpSku) ==
  IF items = << >> THEN prods
  ELSE scrapeUnfiltered(assignTile_scrape2(prods, resolveProductCode(Head(items), pdpSku),
                                           Head(items)),
                        Tail(items), pdpSku)

\* wilsonart-scrape2.js finalizeRecord: name and product-link are always
\* written, finish only when the Map has entries
finalizeRecord_scrape2(rec) ==
  [ k \in AllKeys |->
      CASE k = "code" -> rec[k]
        [] k = "surface-group" -> Str("Laminate")
        [] k \in {"name", "product-link"} -> IF truthy(rec[k]) THEN rec[k] ELSE Str("")
        [] k \in Range(ARRAY_FIELDS) -> IF rec[k].t = "arr" THEN rec[k] ELSE Arr(<< >>)
        [] k = "finish" -> IF rec[k].t = "arr" /\ rec[k].a # << >> THEN rec[k] ELSE Absent
        [] OTHER -> Absent ]

\* ---------------------------------------------------------------------
\* Files and the read-merge-write cycles
\* ---------------------------------------------------------------------
TFL_OUT_PATH == "wilsonart-tfl-laminate-index.json"

INDEX_OUT_PATH == "wilsonart-laminate-index.json"

\* the content of a file: none, a JSON array of records, or the part of a
\* JSON text that a write in progress has put there (JSON.parse throws on it)
Missing == [st |-> "missing", recs |-> << >>]

Torn == [st |-> "torn", recs |-> << >>]

Content(recs) == [st |-> "ok", recs |-> recs]

\* a file that parses as JSON and whose root is not an array
NotArray == [st |-> "notarray", recs |-> << >>]

\* the array a scraper reads from the file: [] when the file is not there,
\* does not parse, or holds no array
readExisting(f) == IF f.st = "ok" THEN f.recs ELSE << >>

upperKey(rec) == toUpperCase(StringOf(rec["code"]))

trimKey(rec) == trim(StringOf(rec["code"]))

\* { code }
CodeOnly(code) == [EmptyRec EXCEPT !["code"] = Str(code)]

\* the codes of the run alone
allCodes_currentOnly(existing, current) == [ i \in DOMAIN current |-> codeKey(current[i]) ]

\* the keys of the old file in order, then the codes only the run has
allCodes(existing, current) ==
  [ i \in DOMAIN existing |-> upperKey(existing[i]) ] \o
  [ i \in DOMAIN SelectSeq(current, LAMBDA r : IndexOfKey(existing, upperKey, codeKey(r)) = 0) |->
      codeKey(SelectSeq(current, LAMBDA r : IndexOfKey(existing, upperKey, codeKey(r)) = 0)[i]) ]

\* existing.get(code) || { code }
GetOr(map, K(_), code) ==
  IF IndexOfKey(map, K, code) # 0 THEN map[IndexOfKey(map, K, code)] ELSE CodeOnly(code)

mergePerCode(existing, current, codes) ==
  [ i \in DOMAIN codes |->
      mergeRecordsNoErase(GetOr(existing, upperKey, codes[i]), GetOr(current, codeKey, codes[i])) ]

mergeMaps(existing, current) == mergePerCode(existing, current, allCodes(existing, current))

\* the records of the store as they are written
currentOf(productsMap) == [ i \in DOMAIN productsMap |-> finalizeRecord(productsMap[i]) ]

\* wilsonart-scrapeTFL.js writeOutput: the array it writes
writeOutput(f, productsMap) ==
  mergeMaps(MapOf(SelectSeq(readExisting(f), LAMBDA r : truthy(r["code"])), upperKey),
            currentOf(productsMap))

\* wilsonart-scrape.js writeOutput: the array it writes
writeOutput_scrape(productsMap) ==
  [ i \in DOMAIN productsMap |-> finalizeRecord_scrape(productsMap[i]) ]

\* wilsonart-scrape-unfilteredTFL.js
readIndex(f) ==
  MapOf(SelectSeq(readExisting(f), LAMBDA r : truthy(r["code"])), trimKey)

writeIndex(map) == [ i \in DOMAIN map |-> finalizeRecord_unfiltered(map[i]) ]

\* wilsonart-scrape2.js shallowMergeKeep
\* (f.code || f.name || "").toUpperCase() of a finish element
finishKey_scrape2(f) ==
  toUpperCase(IF truthyStr(f.code) THEN f.code ELSE IF truthyStr(f.name) THEN f.name ELSE "")

\* the finish entries of v whose key is not among the old ones are added
mergeFinish_scrape2(old, v) ==
  old \o DedupBy(SelectSeq(v, LAMBDA f : \A i \in DOMAIN old :
                                           finishKey_scrape2(old[i]) # finishKey_scrape2(f)),
                 finishKey_scrape2)

\* Array.from(new Set([...old.map(String), ...v.map(String)]))
mergeArray_scrape2(old, v) ==
  DedupBy([ i \in DOMAIN (old \o v) |-> StrE(ElemString((old \o v)[i])) ], LAMBDA e : e)

shallowMergeKeep(oldObj, newObj) ==
  [ k \in AllKeys |->
      IF isNullish(newObj[k]) THEN oldObj[k]
      ELSE IF k = "finish" /\ newObj[k].t = "arr"
      THEN Arr(mergeFinish_scrape2(IF oldObj[k].t = "arr" THEN oldObj[k].a ELSE << >>,
                                   newObj[k].a))
      ELSE IF newObj[k].t = "arr"
      THEN Arr(mergeArray_scrape2(IF oldObj[k].t = "arr" THEN oldObj[k].a ELSE << >>,
                                  newObj[k].a))
      ELSE IF ~truthy(oldObj[k]) THEN newObj[k] ELSE oldObj[k] ]

\* the key of a record in existingByCode
normalizedKey_scrape2(rec) == normalizeCodeValue_scrape2(rec["code"])

\* existingByCode: the records of the file that have a code, each with its
\* code normalized
existingByCode(arr) ==
  MapOf([ i \in DOMAIN SelectSeq(arr, LAMBDA r : normalizedKey_scrape2(r) # "") |->
            [ SelectSeq(arr, LAMBDA r : normalizedKey_scrape2(r) # "")[i]
                EXCEPT !["code"] = Str(normalizeCodeValue_scrape2(@)) ] ],
        codeKey)

\* current: the finalized records of the run whose code is valid
current_scrape2(productsMap) ==
  MapOf(SelectSeq([ i \in DOMAIN productsMap |-> finalizeRecord_scrape2(productsMap[i]) ],
                  LAMBDA fin : isValidCodeValue_scrape2(codeKey(fin))),
        codeKey)

\* the keys of existingByCode, then the codes only the run has
allCodes_scrape2(existing, current) ==
  [ i \in DOMAIN existing |-> codeKey(existing[i]) ] \o
  [ i \in DOMAIN SelectSeq(current, LAMBDA r : IndexOfKey(existing, codeKey, codeKey(r)) = 0) |->
      codeKey(SelectSeq(current, LAMBDA r : IndexOfKey(existing, codeKey, codeKey(r)) = 0)[i]) ]

mergePerCode_scrape2(existing, current, codes) ==
  [ i \in DOMAIN codes |->
      shallowMergeKeep(GetOr(existing, codeKey, codes[i]), GetOr(current, codeKey, codes[i])) ]

\* wilsonart-scrape2.js writeOutput: the array it writes
writeOutput_scrape2(f, productsMap) ==
  mergePerCode_scrape2(existingByCode(readExisting(f)), current_scrape2(productsMap),
                       allCodes_scrape2(existingByCode(readExisting(f)),
                                        current_scrape2(productsMap)))

\* the code wilsonart-scrape-unfilteredTFL.js gives a tile
tileCode_unfiltered(it) ==
  FirstCode(codeFromHref_unfiltered(it.href), toUpperCase(trim(it.codeText)), NoCode)

\* discovered: code -> href, the first href of a code is kept
DiscoveredOf(firsts) ==
  [ i \in DOMAIN firsts |-> [code |-> tileCode_unfiltered(firsts[i]), href |-> firsts[i].href] ]

discoverItems(items) ==
  DiscoveredOf(DedupBy(SelectSeq(items, LAMBDA it : tileCode_unfiltered(it) # NoCode),
                       tileCode_unfiltered))

\* the visit of a product page: the record of the code gets the link, and
\* the name when the page shows one
visited(rec, href, name) ==
  [ rec EXCEPT !["product-link"] = Str(href),
               !["name"] = IF name # "" THEN Str(name) ELSE @ ]

visitProduct(map, code, href, name) ==
  LET i == IndexOfKey(map, trimKey, code)
  IN IF i # 0 THEN [map EXCEPT ![i] = visited(@, href, name)]
     ELSE Append(map, visited([EmptyRec EXCEPT !["code"] = Str(code),
                                               !["surface-group"] = Str("Laminate")],
                              href, name))

\* ---------------------------------------------------------------------
\* The code audit (--check) of wilsonart-scrapeTFL.js
\* ---------------------------------------------------------------------
codeString(rec) == IF rec["code"].t = "str" THEN rec["code"].s ELSE ""

\* the record with its code normalized
normalizedRecord(rec) ==
  IF hasValue(rec["code"]) \/ normalizeCodeValue(rec["code"]) # ""
  THEN [rec EXCEPT !["code"] = Str(normalizeCodeValue(rec["code"]))]
  ELSE rec

\* normalized !== String(originalRaw).trim().toUpperCase()
countsAsNormalized(rec) ==
  /\ hasValue(rec["code"])
  /\ normalizeCodeValue(rec["code"]) # toUpperCase(trim(StringOf(rec["code"])))

\* a code that is not valid is replaced by the preferred candidate
withCandidate(rec, candidate) ==
  IF ~isValidCodeValue(codeString(rec)) /\ candidate # NoCode /\ candidate # codeString(rec)
  THEN [rec EXCEPT !["code"] = Str(candidate)]
  ELSE rec

correctedRecord(rec) == withCandidate(rec, findPreferredCode(rec))

auditRecord(rec) == correctedRecord(normalizedRecord(rec))

\* the records merged by code, a record without code is kept as it is
RECURSIVE mergeByCode(_, _)
mergeByCode(mergedRecords, records) ==
  IF records = << >> THEN mergedRecords
  ELSE LET rec == Head(records)
           hits == { i \in DOMAIN mergedRecords :
                       /\ truthy(mergedRecords[i]["code"])
                       /\ mergedRecords[i]["code"] = rec["code"] }
           idx == CHOOSE i \in hits : \A j \in hits : i <= j
       IN IF ~truthy(rec["code"]) \/ hits = {}
          THEN mergeByCode(Append(mergedRecords, rec), Tail(records))
          ELSE mergeByCode(
                 [mergedRecords EXCEPT ![idx] = mergeRecordsNoErase(@, rec)],
                 Tail(records))

auditSummary(records, normalized, audited, mergedRecords) ==
  [ mergedRecords |-> mergedRecords,
    normalizedCount |-> Cardinality({ i \in DOMAIN records : countsAsNormalized(records[i]) }),
    correctedCount |-> Cardinality({ i \in DOMAIN records : audited[i] # normalized[i] }),
    duplicatesMerged |-> Len(audited) - Len(mergedRecords),
    unresolved |-> SelectSeq(audited, LAMBDA r : ~isValidCodeValue(codeString(r))) ]

auditPasses(records, normalized, audited) ==
  auditSummary(records, normalized, audited, mergeByCode(<< >>, audited))

\* what runCodeCheckAndExit finds in the records of the file
auditOf(records) ==
  auditPasses(records, [ i \in DOMAIN records |-> normalizedRecord(records[i]) ],
              [ i \in DOMAIN records |-> auditRecord(records[i]) ])

\* the exit code with which the audit gives up on the file it loads, -1 when
\* the file holds an array
loadFailureExit_never(f) == -1

loadFailureExit(f) ==
  IF f.st = "missing" THEN 2
  ELSE IF f.st \in {"torn", "notarray"} THEN 3
  ELSE -1

\* an audit that always reports success
auditExitCode_alwaysZero(unresolvedList) == 0

\* process.exit(unresolved.length ? 4 : 0)
auditExitCode(unresolvedList) == IF unresolvedList # << >> THEN 4 ELSE 0

requiresWrite(records, audit) ==
  \/ audit.mergedRecords # records
  \/ audit.normalizedCount > 0
  \/ audit.correctedCount > 0
  \/ audit.duplicatesMerged > 0

\* ---------------------------------------------------------------------
\* Inputs of the merge: old records and fragments
\* ---------------------------------------------------------------------
\* mergeRecordsNoErase treats every key family on its own (a scalar field
\* with its alias, an array field with its alias, finish, code, any other
\* key), so an input pair fills the keys of one family.
Labels == {"Red", "red", "Blue"}

\* duplicate-free arrays of at most n elements of S
ArraysUpTo(S, n) ==
  UNION { { a \in [1..m -> S] : \A i, j \in 1..m : i # j => a[i] # a[j] } : m \in 0..n }

LabelValues(n) ==
  {Absent, Str("Blue")} \cup { Arr(a) : a \in ArraysUpTo({ StrE(l) : l \in Labels }, n) }

ScalarValues == {Absent, Null, Str(""), Str(" "), Str("Oak"), Str("Elm")}

BoolValues == {Absent, Null, Bool("true"), Bool("false")}

CodeValues == {Absent, Str(""), Str("Y0385"), Str("y0385"), Str("8219")}

FinishObjects == {FinE("#38", "Fine Velvet"), FinE("#38", "fine velvet"), FinE(Undef, "Matte")}

FinishArrays == { Arr(a) : a \in ArraysUpTo(FinishObjects, MaxFinLen) }

ObjectValues ==
  {Absent, Null, Obj([width |-> "800", height |-> "600"]),
   Obj([width |-> "640", height |-> Undef]), Obj([width |-> "640", height |-> "480"])}

Rec1(k, v) == [EmptyRec EXCEPT ![k] = v]

Rec2(k1, v1, k2, v2) == [EmptyRec EXCEPT ![k1] = v1, ![k2] = v2]

SmallLabelValues == {Absent, Arr(<< >>), Arr(<< StrE("Red") >>), Arr(<< StrE("Blue") >>)}

\* a key the merge has no rule of its own for, as a string or as an array
UrlValues ==
  {Absent, Str("a.jpg"), Arr(<< >>), Arr(<< StrE("a.jpg") >>), Arr(<< StrE("b.jpg") >>),
   Arr(<< StrE("b.jpg"), StrE("a.jpg") >>)}

\* ---------------------------------------------------------------------
\* State
\* ---------------------------------------------------------------------
VARIABLES
  oldRec,     \* the old record given to mergeRecordsNoErase
  newRec,     \* the fragment given to it
  merged,     \* mergeRecordsNoErase(oldRec, newRec)
  swapped,    \* mergeRecordsNoErase(newRec, oldRec)
  remerged,   \* mergeRecordsNoErase(merged, newRec)
  mphase,     \* "input", "merged", "remerged"; "off" when no merge is drawn
  product,    \* the record given to findPreferredCode
  detail,     \* its detail entry, NoDetail when it has none
  preferred,  \* the code findPreferredCode returns for them
  verdict     \* what isValidCodeValue of each script says of the code of product

VARIABLES
  outPath,    \* the index file of the behaviour: OUT_PATH of the scripts that run
  file,       \* the content of OUT_PATH
  tmpFile,    \* the content of OUT_PATH.tmp
  script,     \* the script that runs, "idle" when none does
  pc,         \* where it is
  products,   \* its Map of records, in insertion order
  todo,       \* the filters it has still to apply, or the products still to visit
  inflight,   \* the products whose page a worker of the pool is visiting
  final,      \* the write in progress is the last one of the run
  pending,    \* the array the write in progress writes
  savedPrev,  \* the array OUT_PATH held when the last save began
  savedRun,   \* the records of the run at the last save
  unresolved, \* the records the audit could not give a valid code
  exitCode,   \* the exit code of the last script that ended, -1 before
  ended,      \* the script that ended last, "none" before
  runs        \* the scripts started so far

\* the details run of wilsonart-fetch-details.js
VARIABLES
  dIndex,     \* the rows of wilsonart-laminate-index.json
  dFile,      \* the rows of wilsonart-laminate-details.json
  dStart,     \* the rows the details file held when the run began
  dOut,       \* outMap: the rows of the run, in insertion order
  dTodo,      \* codesToProcess: the codes the run has still to process
  dInBatch,   \* the codes of the current batch that are done
  dAttempts,  \* attempts: the scrape attempts made for the current code
  dScraped,   \* scraped: the row the last attempt returned, NoRow for none
  dFailed,    \* the codes for which every attempt has failed
  dPc         \* where the run is

detailsVars ==
  << dIndex, dFile, dStart, dOut, dTodo, dInBatch, dAttempts, dScraped, dFailed, dPc >>

\* the filter loops of wilsonart-scrapeTFL.js and wilsonart-scrape.js
VARIABLES
  skipped,    \* a filter of the run was skipped after the last save
  lastFilter  \* how the last filter of the run ended: processed or skipped

loopVars == << skipped, lastFilter >>

\* the pagination loops
VARIABLES
  pgScript,        \* the script whose loop runs
  pgPc,            \* "loop" while the loop runs, "done" after it
  pageNo,          \* pageNo
  seenSignatures,  \* wilsonart-scrapeTFL.js: seenSignatures
  pgShot           \* what the page that is loaded shows

pagesVars == << pgScript, pgPc, pageNo, seenSignatures, pgShot >>

\* withRetry of wilsonart-scrapeTFL.js and wilsonart-scrape.js
VARIABLES
  wrFn,        \* fn: what its successive calls do, a value or an error message
  wrAttempts,  \* attempts
  wrI,         \* i
  wrCalls,     \* the calls of fn made so far
  wrLastErr,   \* lastErr: the call that threw the last error caught, 0 for none
  wrPc,        \* "loop", "returned" or "threw"; "off" when it does not run
  wrValue      \* the value returned or the error thrown

retryVars == << wrFn, wrAttempts, wrI, wrCalls, wrLastErr, wrPc, wrValue >>

\* runPool of wilsonart-scrape-unfilteredTFL.js
VARIABLES
  plItems,    \* items.length: the items are 1 .. plItems
  plLimit,    \* limit
  plFails,    \* the items for which the worker throws
  plQ,        \* q
  plWorkers,  \* workers: the item each of them has given to the worker, 0 once
              \* it has left its loop
  plCalls,    \* how often the worker was invoked for each item
  plLogged,   \* the items whose error was logged
  plPc        \* "call", "await", "done" or "threw"; "off" when it does not run

poolVars == << plItems, plLimit, plFails, plQ, plWorkers, plCalls, plLogged, plPc >>

\* the compare UI of compare.js
VARIABLES
  cmpRows,           \* the tr elements of #body-rows
  selectedProducts,  \* the keys of selectedProducts
  cmpHidden,         \* the sidebar container has the class is-hidden
  cmpCards,          \* the keys of the cards the sidebar shows
  cmpLast            \* the last event handled; "off" when the UI is not loaded

compareVars == << cmpRows, selectedProducts, cmpHidden, cmpCards, cmpLast >>

\* Filters of the viewer (src/unnamed/part_000, part_001, part_002)
VARIABLES
  fcVersion,  \* the file that defines Filters
  fcData,     \* rawData: the data given to Filters.init
  fcState,    \* state
  fcDefault,  \* part_000: the Sets of DEFAULT_STATE.facets
  fcVisible,  \* visible: what the last Filters.apply(rawData) that returned gave
  fcThrew,    \* the last handler ended with a TypeError
  fcLast      \* the last call handled; "off" when the viewer is not loaded

facetVars == << fcVersion, fcData, fcState, fcDefault, fcVisible, fcThrew, fcLast >>

utilVars == << retryVars, poolVars, compareVars, facetVars >>

exceptRetry == << poolVars, compareVars, facetVars >>

exceptPool == << retryVars, compareVars, facetVars >>

exceptCompare == << retryVars, poolVars, facetVars >>

exceptFacets == << retryVars, poolVars, compareVars >>

otherVars == << detailsVars, loopVars, pagesVars, utilVars >>

pureVars == << oldRec, newRec, merged, swapped, remerged, mphase, product, detail, preferred,
              verdict >>

mergeVars == << pureVars, otherVars >>

storeVars ==
  << outPath, file, tmpFile, script, pc, products, todo, inflight, final, pending,
     savedPrev, savedRun, unresolved, exitCode, ended, runs >>

vars == << mergeVars, storeVars >>

\* no script runs
IdleInit ==
  /\ tmpFile = Missing
  /\ script = "idle"
  /\ pc = "idle"
  /\ products = << >>
  /\ todo = << >>
  /\ inflight = << >>
  /\ final = FALSE
  /\ pending = << >>
  /\ savedPrev = << >>
  /\ savedRun = << >>
  /\ unresolved = << >>
  /\ exitCode = -1
  /\ ended = "none"
  /\ runs = 0

\* nothing has run yet
StoreInit == file = Missing /\ IdleInit

\* no code resolution is drawn
NoVerdict == [tfl |-> FALSE, scrape2 |-> FALSE]

NoResolve ==
  product = EmptyRec /\ detail = NoDetail /\ preferred = NoCode /\ verdict = NoVerdict

\* ---------------------------------------------------------------------
\* wilsonart-fetch-details.js: the details run
\* ---------------------------------------------------------------------
\* A row of the details or index file is a function from DetailKeys to
\* the JSON text of the value; NoValue marks a key the row does not have.
NoValue == "<none>"

DetailKeys ==
  { "code", "name", "product-link", "texture_image_url", "texture_image_pixels",
    "no_repeat", "description", "sheet_sizes", "no_repeat_texture_scale",
    "banner_cropped", "texture_scale" }

BlankRow == [k \in DetailKeys |-> NoValue]

\* undefined where a row is expected: a row has a code, this one has none
NoRow == BlankRow

\* { ...a, ...b }: the keys of b win, the other keys of a stay
Spread(a, b) == [k \in DetailKeys |-> IF b[k] # NoValue THEN b[k] ELSE a[k]]

hasString(v) == v \notin {NoValue, "", " "}

\* /carousel/i.test(url)
IsCarouselUrl(url) ==
  url \in { "https://assets.wilsonart.com/Carousel_Main/Y0385.jpg" }

orientMaxAsWidth(s) ==
  CASE s = "48x96" -> "96x48"
    [] OTHER -> s

\* the row after clearCarouselTextureUrls has looked at it
clearCarouselRow(row) ==
  IF IsCarouselUrl(row["texture_image_url"])
    THEN [row EXCEPT !["texture_image_url"] = NoValue, !["texture_image_pixels"] = NoValue]
    ELSE row

clearCarouselTextureUrls(rows) == [i \in DOMAIN rows |-> clearCarouselRow(rows[i])]

\* the codes clearCarouselTextureUrls returns
clearedCarouselCodes(rows) ==
  { rows[i]["code"] : i \in { j \in DOMAIN rows : IsCarouselUrl(rows[j]["texture_image_url"]) } }

\* byCodeMap(rows).get(code): the position of the row, 0 for none
RowOfCode(rows, code) ==
  IF \E i \in DOMAIN rows : rows[i]["code"] = code
    THEN CHOOSE i \in DOMAIN rows : rows[i]["code"] = code
    ELSE 0

GetRow(rows, code) == IF RowOfCode(rows, code) = 0 THEN NoRow ELSE rows[RowOfCode(rows, code)]

\* codesMissingFromDetails(indexArr, detailsArr).missing
codesMissingFromDetails(indexArr, detailsArr) ==
  SelectSeq([i \in DOMAIN indexArr |-> indexArr[i]["code"]],
            LAMBDA c : RowOfCode(detailsArr, c) = 0)

\* What one visit of a product page shows.  chosenUrl, the pixels of the
\* image, the no-repeat badge, the description, the sheet sizes and the
\* scale chooseFinalScale picks from the sheet options are read from the
\* page, so they are drawn here; NoValue stands for null and undefined.
PageViews ==
  [ chosenUrl : { NoValue, "https://assets.wilsonart.com/FullSheet/Y0385_5x12.jpg" },
    no_repeat : { "true", "false" },
    description : { NoValue, "A warm bronze." },
    sheetSizes : { "[4x8,5x12]" },
    chosenScale : { NoValue, "96x48" } ]

\* getImagePixels(page, chosenUrl), normalised
pixelsOf(view) == IF view.chosenUrl = NoValue THEN NoValue ELSE "{1500x625}"

\* chooseFinalScale(...).noRepeatScale: the row's own no-repeat scale
\* when it has one, else 60 by 60/ratio on a no-repeat page with pixels
noRepeatScaleOf(existingRow, view) ==
  IF existingRow # NoRow /\ existingRow["no_repeat_texture_scale"] # NoValue
    THEN existingRow["no_repeat_texture_scale"]
  ELSE IF view.no_repeat = "true" /\ pixelsOf(view) # NoValue THEN "60x25"
  ELSE NoValue

\* existingRow?.texture_scale || parsedScale || { width: 144, height: 60 }
currentScaleOf(existingRow) ==
  orientMaxAsWidth(IF existingRow # NoRow /\ existingRow["texture_scale"] # NoValue
                     THEN existingRow["texture_scale"]
                     ELSE "144x60")

finalScaleOf(existingRow, view) ==
  IF view.chosenScale # NoValue THEN view.chosenScale ELSE currentScaleOf(existingRow)

descriptionOf(existingRow, view) ==
  IF existingRow # NoRow /\ hasString(existingRow["description"])
    THEN existingRow["description"]
    ELSE view.description

\* the row scrapeOne returns when the visit shows view
scrapeOne(code, existingRow, view) ==
  LET base == IF existingRow = NoRow THEN BlankRow ELSE existingRow
  IN  [k \in DetailKeys |->
        CASE k = "code" -> code
          [] k = "texture_image_url" ->
               IF view.chosenUrl # NoValue THEN view.chosenUrl ELSE base[k]
          [] k = "texture_image_pixels" ->
               IF pixelsOf(view) # NoValue THEN pixelsOf(view) ELSE base[k]
          [] k = "no_repeat" -> view.no_repeat
          [] k = "description" ->
               IF hasString(descriptionOf(existingRow, view))
                 THEN descriptionOf(existingRow, view) ELSE base[k]
          [] k = "sheet_sizes" -> view.sheetSizes
          [] k = "no_repeat_texture_scale" -> noRepeatScaleOf(existingRow, view)
          [] k = "texture_scale" -> finalScaleOf(existingRow, view)
          [] OTHER -> base[k]]

\* the rows after the merge of scraped into outMap
mergeScraped(rows, idxRow, code, scraped) ==
  IF RowOfCode(rows, code) # 0
    THEN [rows EXCEPT ![RowOfCode(rows, code)] = Spread(rows[RowOfCode(rows, code)], scraped)]
    ELSE Append(rows, Spread(idxRow, scraped))

MAX_FETCH_ATTEMPTS == 3

BATCH_SIZE == 1

\* the rows the files can hold when a run begins
IndexRow(code, name, link) ==
  [BlankRow EXCEPT !["code"] = code, !["name"] = name, !["product-link"] = link]

FullDetailsRow ==
  [ k \in DetailKeys |->
      CASE k = "code" -> "Y0385"
        [] k = "name" -> "Aged Bronze"
        [] k = "product-link" -> "https://www.wilsonart.com/aged-bronze-y0385"
        [] k = "texture_image_url" -> "https://assets.wilsonart.com/FullSheet/Y0385_4x8.jpg"
        [] k = "texture_image_pixels" -> "{1200x600}"
        [] k = "no_repeat" -> "true"
        [] k = "description" -> "An aged bronze."
        [] k = "sheet_sizes" -> "[5x12]"
        [] k = "no_repeat_texture_scale" -> "60x30"
        [] k = "banner_cropped" -> NoValue
        [] k = "texture_scale" -> "48x96" ]

CarouselDetailsRow ==
  [BlankRow EXCEPT !["code"] = "Y0385", !["name"] = "Aged Bronze",
                   !["texture_image_url"] = "https://assets.wilsonart.com/Carousel_Main/Y0385.jpg",
                   !["texture_image_pixels"] = "{800x600}",
                   !["description"] = "",
                   !["texture_scale"] = "144x60"]

OtherDetailsRow ==
  [BlankRow EXCEPT !["code"] = "8219", !["name"] = "North Bridge",
                   !["description"] = "A grey stone.",
                   !["texture_scale"] = "96x48"]

DetailsFiles ==
  { << >>, << FullDetailsRow >>, << CarouselDetailsRow >>, << OtherDetailsRow >>,
    << FullDetailsRow, OtherDetailsRow >>, << CarouselDetailsRow, OtherDetailsRow >> }

IndexFiles ==
  { << IndexRow("Y0385", "Aged Bronze", "https://www.wilsonart.com/aged-bronze-y0385") >>,
    << IndexRow("Y0385", "Aged Bronze", "https://www.wilsonart.com/aged-bronze-y0385"),
       IndexRow("8219", "North Bridge", "https://www.wilsonart.com/north-bridge-8219") >>,
    << IndexRow("Y0385", "Aged Bronze", "https://www.wilsonart.com/aged-bronze-y0385"),
       IndexRow("8219", "North Bridge", NoValue) >> }

\* no details run is under way
DetailsIdle ==
  /\ dIndex = << >> /\ dFile = << >> /\ dStart = << >> /\ dOut = << >>
  /\ dTodo = << >> /\ dInBatch = 0 /\ dAttempts = 0 /\ dScraped = NoRow
  /\ dFailed = {} /\ dPc = "off"

\* what a result page shows: the signature of its first tiles ("" for a
\* page without tiles; a tile has a link, a SKU or a text), the number of
\* its tiles, and whether its pager has a next link that is not disabled
PageShots ==
  { sh \in [signature : {"", "a", "b"}, count : {0, 1}, next : BOOLEAN] :
      sh.count = 0 <=> sh.signature = "" }

NoShot == [signature |-> "", count |-> 0, next |-> FALSE]

PagesIdle ==
  /\ pgScript = "none" /\ pgPc = "off" /\ pageNo = 0 /\ seenSignatures = {}
  /\ pgShot = NoShot

\* what withRetry gives back: the value the given call of fn returned or
\* the error it threw; call 0 of kind "error" is undefined, the lastErr of
\* a loop that caught nothing
Gave(kind, call) == [kind |-> kind, call |-> call]

NoOutcome == Gave("none", 0)

RetryIdle ==
  /\ wrFn = << >> /\ wrAttempts = 0 /\ wrI = 0 /\ wrCalls = 0 /\ wrLastErr = 0
  /\ wrPc = "off" /\ wrValue = NoOutcome

PoolIdle ==
  /\ plItems = 0 /\ plLimit = 0 /\ plFails = {} /\ plQ = << >> /\ plWorkers = << >>
  /\ plCalls = << >> /\ plLogged = {} /\ plPc = "off"

CompareIdle ==
  /\ cmpRows = << >> /\ selectedProducts = {} /\ cmpHidden = TRUE /\ cmpCards = {}
  /\ cmpLast = "off"

\* the facets of the model
FACET_KEYS == {"surface-group", "no_repeat"}

\* a facet selection is a Set of strings, or the plain object {} that
\* JSON.parse(JSON.stringify(...)) makes of a Set
SetOf(values) == [isSet |-> TRUE, values |-> values]

PlainObject == [isSet |-> FALSE, values |-> {}]

createDefaultState ==
  [query |-> "", withImageOnly |-> FALSE, withoutImageOnly |-> FALSE,
   facets |-> [k \in FACET_KEYS |-> SetOf({})]]

FacetsIdle ==
  /\ fcVersion = "none" /\ fcData = << >> /\ fcState = createDefaultState
  /\ fcDefault = createDefaultState.facets /\ fcVisible = << >> /\ fcThrew = FALSE
  /\ fcLast = "off"

UtilIdle == RetryIdle /\ PoolIdle /\ CompareIdle /\ FacetsIdle

OtherIdle ==
  /\ DetailsIdle /\ skipped = FALSE /\ lastFilter = "none" /\ PagesIdle /\ UtilIdle

\* ---------------------------------------------------------------------
\* The merge as a pure function: inputs drawn, then applied
\* ---------------------------------------------------------------------
\* one key in both records
PlainFamily(k, VOld, VNew) ==
  \E v1 \in VOld, v2 \in VNew : oldRec = Rec1(k, v1) /\ newRec = Rec1(k, v2)

\* a canonical key c and its alias a in both records
AliasFamily(c, a, VOldC, VOther) ==
  \E v1 \in VOldC, v2 \in VOther, v3 \in VOther, v4 \in VOther :
    oldRec = Rec2(c, v1, a, v2) /\ newRec = Rec2(c, v3, a, v4)

MergeInputs ==
  \/ AliasFamily("colors", "color", LabelValues(MaxArrLen), LabelValues(MaxFragLen))
  \/ \E c \in {"performance_enhancements", "specialty_features"} :
       AliasFamily(c, FIELD_ALIASES[c][2], SmallLabelValues, SmallLabelValues)
  \/ \E k \in {"design_groups", "species", "cut", "match", "shade", "design_collections"} :
       PlainFamily(k, LabelValues(MaxArrLen), LabelValues(MaxFragLen))
  \/ \E c \in {"product-link", "surface-group"} :
       AliasFamily(c, FIELD_ALIASES[c][2], ScalarValues, ScalarValues)
  \/ \E k \in {"name", "description", "texture_image_url"} :
       PlainFamily(k, ScalarValues, ScalarValues)
  \/ PlainFamily("no_repeat", BoolValues, BoolValues)
  \/ PlainFamily("code", CodeValues, CodeValues)
  \/ PlainFamily("finish", FinishArrays \cup {Absent, Str("Matte")},
                 FinishArrays \cup {Absent, Str("Matte")})
  \/ PlainFamily("texture_image_url", UrlValues, UrlValues)
  \/ PlainFamily("texture_image_pixels", ObjectValues, ObjectValues)

MergeInit ==
  /\ MergeInputs
  /\ outPath = TFL_OUT_PATH
  /\ StoreInit
  /\ merged = EmptyRec
  /\ swapped = EmptyRec
  /\ remerged = EmptyRec
  /\ mphase = "input"
  /\ NoResolve
  /\ OtherIdle

ApplyMerge ==
  /\ mphase = "input"
  /\ merged' = mergeRecordsNoErase(oldRec, newRec)
  /\ swapped' = mergeRecordsNoErase(newRec, oldRec)
  /\ mphase' = "merged"
  /\ UNCHANGED << oldRec, newRec, remerged, product, detail, preferred, verdict, otherVars,
                  storeVars >>

ReapplyMerge ==
  /\ mphase = "merged"
  /\ remerged' = mergeRecordsNoErase(merged, newRec)
  /\ mphase' = "remerged"
  /\ UNCHANGED << oldRec, newRec, merged, swapped, product, detail, preferred, verdict,
                  otherVars, storeVars >>

MergeNext == ApplyMerge \/ ReapplyMerge

MergeSpec == MergeInit /\ [][MergeNext]_vars

\* ---------------------------------------------------------------------
\* The code resolution and the validation as functions
\* ---------------------------------------------------------------------
\* the codes, links and detail entries the resolution is applied to
ResolveCodes ==
  {Absent} \cup { Str(c) : c \in {"BRONZE", "Y0385", "y 0385", "AB12", "4830K-07", "Y0",
                                   "BRONZE1", "12345678", "13096"} }

ResolveLinks ==
  {Absent, Str("https://www.wilsonart.com/aged-bronze"),
   Str("https://www.wilsonart.com/north-bridge-8219?sku=Y0385"),
   Str("https://www.wilsonart.com/aged-bronze-y0385")}

ResolveProducts ==
  { [EmptyRec EXCEPT !["code"] = c, !["product-link"] = l] :
      c \in ResolveCodes, l \in ResolveLinks }

ResolveDetails ==
  { [EmptyRec EXCEPT !["code"] = c, !["product-link"] = l, !["texture_image_url"] = u] :
      c \in {Absent, Str("8219"), Str("BRONZE")},
      l \in {Absent, Str("https://www.wilsonart.com/north-bridge-8219"),
              Str("https://www.wilsonart.com/aged-bronze")},
      u \in {Absent, Str("https://images.wilsonart.com/8219.jpg")} }

ResolveInit ==
  /\ product \in ResolveProducts
  /\ detail \in ResolveDetails
  /\ preferred = NoCode
  /\ verdict = NoVerdict
  /\ outPath = TFL_OUT_PATH
  /\ StoreInit
  /\ oldRec = EmptyRec /\ newRec = EmptyRec /\ merged = EmptyRec /\ swapped = EmptyRec
  /\ remerged = EmptyRec
  /\ mphase = "resolve"
  /\ OtherIdle

\* findPreferredCode(product, detail)
Resolve ==
  /\ mphase = "resolve"
  /\ preferred' = findPreferred(product, detail)
  /\ mphase' = "resolved"
  /\ UNCHANGED << oldRec, newRec, merged, swapped, remerged, product, detail, verdict,
                  otherVars, storeVars >>

\* isValidCodeValue of each script on the normalized code of the record
Validate ==
  /\ mphase = "resolve"
  /\ verdict' = [tfl |-> isValidCodeValue(normalizeCodeValue(product["code"])),
                 scrape2 |-> isValidCodeValue_scrape2(normalizeCodeValue_scrape2(product["code"]))]
  /\ mphase' = "validated"
  /\ UNCHANGED << oldRec, newRec, merged, swapped, remerged, product, detail, preferred,
                  otherVars, storeVars >>

ResolveNext == Resolve \/ Validate

ResolveSpec == ResolveInit /\ [][ResolveNext]_vars

\* ---------------------------------------------------------------------
\* The details run: main of wilsonart-fetch-details.js without --report
\* and --update, OFFSET and LIMIT at their default 0
\* ---------------------------------------------------------------------
exceptDetails == << pureVars, storeVars, loopVars, pagesVars, utilVars >>

DetailsInit ==
  /\ dIndex \in IndexFiles
  /\ dFile \in DetailsFiles
  /\ dStart = dFile
  /\ dOut = << >> /\ dTodo = << >> /\ dInBatch = 0 /\ dAttempts = 0 /\ dScraped = NoRow
  /\ dFailed = {} /\ dPc = "start"
  /\ skipped = FALSE /\ lastFilter = "none" /\ PagesIdle /\ UtilIdle
  /\ outPath = TFL_OUT_PATH
  /\ StoreInit
  /\ oldRec = EmptyRec /\ newRec = EmptyRec /\ merged = EmptyRec /\ swapped = EmptyRec
  /\ remerged = EmptyRec
  /\ mphase = "details"
  /\ NoResolve

\* the loop with one attempt too many
mayAttempt_oneMore(attempts, scraped) == attempts <= MAX_FETCH_ATTEMPTS /\ scraped = NoRow

\* while (attempts < MAX_FETCH_ATTEMPTS && !scraped)
mayAttempt(attempts, scraped) == attempts < MAX_FETCH_ATTEMPTS /\ scraped = NoRow

\* the files are read, the carousel URLs cleared, the codes chosen
Details_Start ==
  /\ dPc = "start"
  /\ \E remaining \in BOOLEAN :
       LET detailsArr == clearCarouselTextureUrls(dFile)
           codes == IF remaining
                      THEN codesMissingFromDetails(dIndex, detailsArr)
                      ELSE [i \in DOMAIN dIndex |-> dIndex[i]["code"]]
       IN  /\ dOut' = detailsArr
           /\ dTodo' = codes
           /\ dFile' = IF codes = << >> /\ clearedCarouselCodes(dFile) # {}
                         THEN detailsArr ELSE dFile
           /\ dPc' = IF codes = << >> THEN "done" ELSE "code"
  /\ UNCHANGED << dIndex, dStart, dInBatch, dAttempts, dScraped, dFailed, exceptDetails >>

\* the code is done: the batch is flushed when it is full or the last
NextCode(rows) ==
  /\ dTodo' = Tail(dTodo)
  /\ dOut' = rows
  /\ dAttempts' = 0
  /\ dScraped' = NoRow
  /\ IF dInBatch + 1 = BATCH_SIZE \/ Tail(dTodo) = << >>
       THEN dFile' = rows /\ dInBatch' = 0
       ELSE dFile' = dFile /\ dInBatch' = dInBatch + 1
  /\ dPc' = IF Tail(dTodo) = << >> THEN "done" ELSE "code"

\* the index row of the code has no product-link
Details_Skip ==
  /\ dPc = "code"
  /\ ~hasString(GetRow(dIndex, Head(dTodo))["product-link"])
  /\ NextCode(dOut)
  /\ UNCHANGED << dIndex, dStart, dFailed, exceptDetails >>

\* one pass of the while loop: scrapeOne returns a row or throws
Details_Attempt ==
  /\ dPc = "code"
  /\ hasString(GetRow(dIndex, Head(dTodo))["product-link"])
  /\ mayAttempt(dAttempts, dScraped)
  /\ dAttempts' = dAttempts + 1
  /\ \/ \E view \in PageViews :
          dScraped' = scrapeOne(Head(dTodo), GetRow(dOut, Head(dTodo)), view)
     \/ dScraped' = NoRow
  /\ UNCHANGED << dIndex, dFile, dStart, dOut, dTodo, dInBatch, dFailed, dPc, exceptDetails >>

\* if (!scraped) continue
Details_Fail ==
  /\ dPc = "code"
  /\ hasString(GetRow(dIndex, Head(dTodo))["product-link"])
  /\ ~mayAttempt(dAttempts, dScraped)
  /\ dScraped = NoRow
  /\ dFailed' = dFailed \cup {Head(dTodo)}
  /\ NextCode(dOut)
  /\ UNCHANGED << dIndex, dStart, exceptDetails >>

\* the scraped row is merged into outMap
Details_Merge ==
  /\ dPc = "code"
  /\ dScraped # NoRow
  /\ NextCode(mergeScraped(dOut, GetRow(dIndex, Head(dTodo)), Head(dTodo), dScraped))
  /\ UNCHANGED << dIndex, dStart, dFailed, exceptDetails >>

DetailsNext ==
  Details_Start \/ Details_Skip \/ Details_Attempt \/ Details_Fail \/ Details_Merge

DetailsSpec == DetailsInit /\ [][DetailsNext]_vars

\* ---------------------------------------------------------------------
\* The scripts: runs, saves and the audit
\* ---------------------------------------------------------------------
\* the scripts started in a behaviour
MaxRuns == 2

\* the filters of the side bar a run finds, and the tiles a page shows
FilterLists == {<< >>} \cup { << f >> : f \in Filters }

\* runs of the filter loops on side bars of two filters
MaxFilterRuns == 1

\* side bars with two filters
FilterRuns ==
  { << [attr |-> "shade", label |-> "Dark"], [attr |-> "thickness", label |-> "Standard"],
       [attr |-> "pa_finish", label |-> "# 38 Fine Velvet"] >>,
    << [attr |-> "color_swatch", label |-> "Red"], [attr |-> "shade", label |-> "Dark"] >> }

ItemLists ==
  {<< >>} \cup { << t >> : t \in Tiles } \cup
  { << t1, t2 >> : t1 \in { t \in Tiles : t.href = "https://www.wilsonart.com/aged-bronze-y0385" },
                   t2 \in { t \in Tiles : t.href \in {"https://www.wilsonart.com/y0385",
                                                       "https://www.wilsonart.com/north-bridge-8219"} } }

\* --concurrency: the workers of the pool of wilsonart-scrape-unfilteredTFL.js
CONCURRENCY == 2

\* a pool that is held done as soon as its queue is empty
poolDone_queueEmpty(q, flying) == q = << >>

\* await Promise.all(workers): every worker has left its loop, the queue is
\* empty and no visit is open
poolDone(q, flying) == q = << >> /\ flying = << >>

\* the title of the product page behind a link
PageTitle(href) == (CHOOSE t \in Tiles : t.href = href).nameAlt

\* the script ends: its memory is gone, the files stay as they are
ExitOf(name, code) ==
  /\ script' = "idle"
  /\ pc' = "idle"
  /\ products' = << >>
  /\ todo' = << >>
  /\ inflight' = << >>
  /\ final' = FALSE
  /\ pending' = << >>
  /\ savedPrev' = << >>
  /\ savedRun' = << >>
  /\ unresolved' = << >>
  /\ exitCode' = code
  /\ ended' = name

Exit(code) == ExitOf(script, code)

\* wilsonart-scrapeTFL.js starts and collects the filters; it exits when
\* there are none
TFL_StartOn(lists, most) ==
  /\ skipped' = FALSE /\ lastFilter' = "none"
  /\ script = "idle" /\ runs < most /\ outPath = TFL_OUT_PATH
  /\ runs' = runs + 1
  /\ \E filters \in lists :
       IF filters = << >>
       THEN ExitOf("scrapeTFL", 0)
       ELSE /\ script' = "scrapeTFL"
            /\ pc' = "filters"
            /\ todo' = filters
            /\ inflight' = << >>
            /\ UNCHANGED << products, final, pending, savedPrev, savedRun, unresolved, exitCode, ended >>
  /\ UNCHANGED << pureVars, detailsVars, pagesVars, utilVars, outPath, file, tmpFile >>

TFL_Start == TFL_StartOn(FilterLists, MaxRuns)

\* applyFilterAndCollect up to its writeOutput: the tiles of the filter are
\* put in the bucket of the filter
TFL_ApplyFilter ==
  /\ lastFilter' = "processed"
  /\ UNCHANGED skipped
  /\ script = "scrapeTFL" /\ pc = "filters" /\ todo # << >>
  /\ Head(todo).attr \in DOMAIN ATTR_TO_OUTPUT
  /\ \E items \in ItemLists :
       products' = extractGridAndAssign(products, ATTR_TO_OUTPUT[Head(todo).attr],
                                        cleanText(Head(todo).label), items)
  /\ todo' = Tail(todo)
  /\ UNCHANGED inflight
  /\ final' = FALSE
  /\ pc' = "write"
  /\ UNCHANGED << pureVars, detailsVars, pagesVars, utilVars, outPath, file, tmpFile, script, pending, savedPrev, savedRun,
                  unresolved, exitCode, ended, runs >>

\* a loop that ends at the first filter that throws
afterSkip_stop(filters) == << >>

\* catch (e) { logStep(...) } and the i++ of the for loop: the filters after
\* the one that threw
afterSkip(filters) == Tail(filters)

\* a page of the filter throws: the tiles read so far stay in memory, the
\* filter is skipped and nothing is written
TFL_FilterFails ==
  /\ skipped' = TRUE /\ lastFilter' = "skipped"
  /\ script = "scrapeTFL" /\ pc = "filters" /\ todo # << >>
  /\ Head(todo).attr \in DOMAIN ATTR_TO_OUTPUT
  /\ \E items \in ItemLists :
       products' = extractGridAndAssign(products, ATTR_TO_OUTPUT[Head(todo).attr],
                                        cleanText(Head(todo).label), items)
  /\ todo' = afterSkip(todo)
  /\ UNCHANGED inflight
  /\ UNCHANGED << pureVars, detailsVars, pagesVars, utilVars, outPath, file, tmpFile, script, pc, final, pending, savedPrev,
                  savedRun, unresolved, exitCode, ended, runs >>

\* if (!bucket) return: the attribute of the filter maps to no output field,
\* applyFilterAndCollect returns before its writeOutput
TFL_UnmappedFilter ==
  /\ script = "scrapeTFL" /\ pc = "filters" /\ todo # << >>
  /\ Head(todo).attr \notin DOMAIN ATTR_TO_OUTPUT
  /\ todo' = Tail(todo)
  /\ lastFilter' = "processed"
  /\ UNCHANGED << pureVars, detailsVars, pagesVars, utilVars, skipped, outPath, file, tmpFile, script, pc, products,
                  inflight, final, pending, savedPrev, savedRun, unresolved, exitCode, ended,
                  runs >>

\* the final write after the last filter
TFL_Final ==
  /\ script = "scrapeTFL" /\ pc = "filters" /\ todo = << >>
  /\ final' = TRUE
  /\ pc' = "write"
  /\ UNCHANGED << mergeVars, outPath, file, tmpFile, script, products, todo, inflight, pending,
                  savedPrev, savedRun, unresolved, exitCode, ended, runs >>

\* writeOutput reads the file, merges, and starts to write OUT_PATH.tmp
TFL_BeginWrite ==
  /\ script = "scrapeTFL" /\ pc = "write"
  /\ pending' = writeOutput(file, products)
  /\ savedPrev' = readExisting(file)
  /\ savedRun' = currentOf(products)
  /\ tmpFile' = Torn
  /\ pc' = "tmp_open"
  /\ UNCHANGED << mergeVars, outPath, file, script, products, todo, inflight, final, unresolved,
                  exitCode, ended, runs >>

\* fs.writeFileSync(tmp, ...) returns: the temporary file is complete
FinishTmpWrite ==
  /\ pc = "tmp_open"
  /\ tmpFile' = Content(pending)
  /\ pc' = "tmp_written"
  /\ UNCHANGED << mergeVars, outPath, file, script, products, todo, inflight, final, pending,
                  savedPrev, savedRun, unresolved, exitCode, ended, runs >>

\* fs.renameSync(tmp, OUT_PATH)
Rename ==
  /\ skipped' = FALSE
  /\ UNCHANGED lastFilter
  /\ pc = "tmp_written"
  /\ file' = tmpFile
  /\ tmpFile' = Missing
  /\ pc' = "saved"
  /\ UNCHANGED << pureVars, detailsVars, pagesVars, utilVars, outPath, script, products, todo, inflight, final, pending,
                  savedPrev, savedRun, unresolved, exitCode, ended, runs >>

\* after a save the run goes on with the next filter, or ends
AfterSave ==
  /\ pc = "saved"
  /\ IF final
     THEN Exit(0)
     ELSE /\ pc' = "filters"
          /\ pending' = << >>
          /\ savedPrev' = << >>
          /\ savedRun' = << >>
          /\ UNCHANGED << script, products, todo, inflight, final, unresolved, exitCode, ended >>
  /\ UNCHANGED << mergeVars, outPath, file, tmpFile, runs >>

\* wilsonart-scrape.js starts with an empty store; SKIP_BASELINE skips the
\* unfiltered search
Scrape_StartOn(lists, most) ==
  /\ skipped' = FALSE /\ lastFilter' = "none"
  /\ script = "idle" /\ runs < most /\ outPath = INDEX_OUT_PATH
  /\ runs' = runs + 1
  /\ script' = "scrape"
  /\ \E filters \in lists : todo' = filters
  /\ inflight' = << >>
  /\ \E skipBaseline \in BOOLEAN : pc' = IF skipBaseline THEN "filters" ELSE "baseline"
  /\ UNCHANGED << pureVars, detailsVars, pagesVars, utilVars, outPath, file, tmpFile, products, final, pending, savedPrev,
                  savedRun, unresolved, exitCode, ended >>

Scrape_Start == Scrape_StartOn(FilterLists, MaxRuns)

\* the baseline: every tile of the unfiltered search gets a record
Scrape_Baseline ==
  /\ script = "scrape" /\ pc = "baseline"
  /\ \E items \in ItemLists : products' = assignItems_scrape(products, "", "", items)
  /\ final' = FALSE
  /\ pc' = "write"
  /\ UNCHANGED << mergeVars, outPath, file, tmpFile, script, todo, inflight, pending, savedPrev,
                  savedRun, unresolved, exitCode, ended, runs >>

Scrape_ApplyFilter ==
  /\ lastFilter' = "processed"
  /\ UNCHANGED skipped
  /\ script = "scrape" /\ pc = "filters" /\ todo # << >>
  /\ Head(todo).attr \in DOMAIN ATTR_TO_OUTPUT_scrape
  /\ \E items \in ItemLists :
       products' = assignItems_scrape(products, ATTR_TO_OUTPUT_scrape[Head(todo).attr],
                                      cleanText(Head(todo).label), items)
  /\ todo' = Tail(todo)
  /\ UNCHANGED inflight
  /\ final' = FALSE
  /\ pc' = "write"
  /\ UNCHANGED << pureVars, detailsVars, pagesVars, utilVars, outPath, file, tmpFile, script, pending, savedPrev, savedRun,
                  unresolved, exitCode, ended, runs >>

\* the filter throws before its tiles are assigned: it is skipped
Scrape_FilterFails ==
  /\ skipped' = TRUE /\ lastFilter' = "skipped"
  /\ script = "scrape" /\ pc = "filters" /\ todo # << >>
  /\ todo' = afterSkip(todo)
  /\ UNCHANGED inflight
  /\ UNCHANGED << pureVars, detailsVars, pagesVars, utilVars, outPath, file, tmpFile, script, pc, products, final, pending,
                  savedPrev, savedRun, unresolved, exitCode, ended, runs >>

\* the attribute of the filter maps to no bucket: nothing is assigned, the
\* store is written
Scrape_UnmappedFilter ==
  /\ script = "scrape" /\ pc = "filters" /\ todo # << >>
  /\ Head(todo).attr \notin DOMAIN ATTR_TO_OUTPUT_scrape
  /\ todo' = Tail(todo)
  /\ final' = FALSE
  /\ pc' = "write"
  /\ lastFilter' = "processed"
  /\ UNCHANGED << pureVars, detailsVars, pagesVars, utilVars, skipped, outPath, file, tmpFile, script, products,
                  inflight, pending, savedPrev, savedRun, unresolved, exitCode, ended, runs >>

Scrape_Final ==
  /\ script = "scrape" /\ pc = "filters" /\ todo = << >>
  /\ final' = TRUE
  /\ pc' = "write"
  /\ UNCHANGED << mergeVars, outPath, file, tmpFile, script, products, todo, inflight, pending,
                  savedPrev, savedRun, unresolved, exitCode, ended, runs >>

\* writeOutput of wilsonart-scrape.js: the records of the store, the file
\* is not read
Scrape_BeginWrite ==
  /\ script = "scrape" /\ pc = "write"
  /\ pending' = writeOutput_scrape(products)
  /\ savedPrev' = readExisting(file)
  /\ savedRun' = writeOutput_scrape(products)
  /\ tmpFile' = Torn
  /\ pc' = "tmp_open"
  /\ UNCHANGED << mergeVars, outPath, file, script, products, todo, inflight, final, unresolved,
                  exitCode, ended, runs >>

\* the SKU a product page of the site shows, "" when it shows none
PdpSkus == {"", "Y0385"}

\* wilsonart-scrape2.js: the unfiltered sweep over the tiles of the catalog
S2_Scrape ==
  /\ script = "idle" /\ runs < MaxRuns /\ outPath = INDEX_OUT_PATH
  /\ runs' = runs + 1
  /\ script' = "scrape2"
  /\ \E items \in ItemLists, pdpSku \in PdpSkus :
       products' = scrapeUnfiltered(<< >>, items, pdpSku)
  /\ final' = TRUE
  /\ pc' = "write"
  /\ UNCHANGED << mergeVars, outPath, file, tmpFile, todo, inflight, pending, savedPrev, savedRun,
                  unresolved, exitCode, ended >>

\* writeOutput of wilsonart-scrape2.js up to its write of OUT_PATH.tmp
S2_BeginWrite ==
  /\ script = "scrape2" /\ pc = "write"
  /\ pending' = writeOutput_scrape2(file, products)
  /\ savedPrev' = readExisting(file)
  /\ savedRun' = [ i \in DOMAIN products |-> finalizeRecord_scrape2(products[i]) ]
  /\ tmpFile' = Torn
  /\ pc' = "tmp_open"
  /\ UNCHANGED << mergeVars, outPath, file, script, products, todo, inflight, final, unresolved,
                  exitCode, ended, runs >>

\* wilsonart-scrape-unfilteredTFL.js reads the index and discovers the
\* tiles of the grid
UF_Start ==
  /\ script = "idle" /\ runs < MaxRuns /\ outPath = TFL_OUT_PATH
  /\ runs' = runs + 1
  /\ script' = "unfilteredTFL"
  /\ products' = readIndex(file)
  /\ \E items \in ItemLists : todo' = discoverItems(items)
  /\ inflight' = << >>
  /\ pc' = "visit"
  /\ UNCHANGED << mergeVars, outPath, file, tmpFile, final, pending, savedPrev, savedRun,
                  unresolved, exitCode, ended >>

\* a worker of runPool takes the next product of the queue and opens its
\* page; the pool has CONCURRENCY workers
UF_StartVisit ==
  /\ script = "unfilteredTFL" /\ pc = "visit" /\ todo # << >>
  /\ Len(inflight) < CONCURRENCY
  /\ inflight' = Append(inflight, Head(todo))
  /\ todo' = Tail(todo)
  /\ UNCHANGED << mergeVars, outPath, file, tmpFile, script, pc, products, final, pending,
                  savedPrev, savedRun, unresolved, exitCode, ended, runs >>

\* the visit of one of the open pages ends: the page shows a name or none,
\* and the record of the code is updated in the Map
UF_Visit ==
  /\ script = "unfilteredTFL" /\ pc = "visit"
  /\ \E i \in DOMAIN inflight :
       /\ \E named \in BOOLEAN :
            products' = visitProduct(products, inflight[i].code, inflight[i].href,
                                     IF named THEN PageTitle(inflight[i].href) ELSE "")
       /\ inflight' = SubSeqAt(inflight, DOMAIN inflight \ {i})
  /\ UNCHANGED << mergeVars, outPath, file, tmpFile, script, pc, todo, final, pending,
                  savedPrev, savedRun, unresolved, exitCode, ended, runs >>

\* writeIndex starts to write OUT_PATH.tmp
UF_BeginWrite ==
  /\ script = "unfilteredTFL" /\ pc = "visit" /\ poolDone(todo, inflight)
  /\ pending' = writeIndex(products)
  /\ savedPrev' = readExisting(file)
  /\ savedRun' = writeIndex(products)
  /\ final' = TRUE
  /\ tmpFile' = Torn
  /\ pc' = "tmp_open"
  /\ UNCHANGED << mergeVars, outPath, file, script, products, todo, inflight, unresolved,
                  exitCode, ended, runs >>

\* runCodeCheckAndExit up to its write: exit 2 without file, 3 when it does
\* not parse, else the codes are normalized, corrected and merged
Check_Run ==
  /\ script = "idle" /\ runs < MaxRuns /\ outPath = TFL_OUT_PATH
  /\ runs' = runs + 1
  /\ IF loadFailureExit(file) # -1 THEN ExitOf("check", loadFailureExit(file))
     ELSE IF requiresWrite(file.recs, auditOf(file.recs))
          THEN /\ script' = "check"
               /\ pc' = "direct_write"
               /\ pending' = auditOf(file.recs).mergedRecords
               /\ unresolved' = auditOf(file.recs).unresolved
               /\ UNCHANGED << products, todo, inflight, final, savedPrev, savedRun, exitCode, ended >>
          ELSE ExitOf("check", auditExitCode(auditOf(file.recs).unresolved))
  /\ UNCHANGED << mergeVars, outPath, file, tmpFile >>

\* fs.writeFileSync(OUT_PATH, ...) has opened the index and written a part
DirectWrite_Begin ==
  /\ script = "check" /\ pc = "direct_write"
  /\ file' = Torn
  /\ pc' = "direct_open"
  /\ UNCHANGED << mergeVars, outPath, tmpFile, script, products, todo, inflight, final, pending,
                  savedPrev, savedRun, unresolved, exitCode, ended, runs >>

\* the write returns and the audit exits
DirectWrite_End ==
  /\ script = "check" /\ pc = "direct_open"
  /\ file' = Content(pending)
  /\ Exit(auditExitCode(unresolved))
  /\ UNCHANGED << mergeVars, outPath, tmpFile, runs >>

\* the script dies where it is (an error that nothing catches, or a kill)
Crash ==
  /\ script # "idle"
  /\ Exit(IF script = "check" THEN 3 ELSE 1)
  /\ UNCHANGED << mergeVars, outPath, file, tmpFile, runs >>

Init ==
  /\ outPath \in {TFL_OUT_PATH, INDEX_OUT_PATH}
  /\ StoreInit
  /\ oldRec = EmptyRec /\ newRec = EmptyRec /\ merged = EmptyRec /\ swapped = EmptyRec
  /\ remerged = EmptyRec
  /\ mphase = "off"
  /\ NoResolve
  /\ OtherIdle

Next ==
  \/ TFL_Start \/ TFL_ApplyFilter \/ TFL_FilterFails \/ TFL_Final \/ TFL_BeginWrite
  \/ Scrape_Start \/ Scrape_Baseline \/ Scrape_ApplyFilter \/ Scrape_FilterFails
  \/ Scrape_Final \/ Scrape_BeginWrite
  \/ S2_Scrape \/ S2_BeginWrite
  \/ UF_Start \/ UF_StartVisit \/ UF_Visit \/ UF_BeginWrite
  \/ FinishTmpWrite \/ Rename \/ AfterSave
  \/ Check_Run \/ DirectWrite_Begin \/ DirectWrite_End
  \/ Crash

Spec == Init /\ [][Next]_vars

\* the scripts of the TFL index started on an index that is missing, cut
\* short by a killed write, or holds no array
LoadInit ==
  /\ outPath = TFL_OUT_PATH
  /\ file \in {Missing, Torn, NotArray}
  /\ IdleInit
  /\ oldRec = EmptyRec /\ newRec = EmptyRec /\ merged = EmptyRec /\ swapped = EmptyRec
  /\ remerged = EmptyRec
  /\ mphase = "off"
  /\ NoResolve
  /\ OtherIdle

LoadNext ==
  \/ TFL_Start \/ TFL_ApplyFilter \/ TFL_FilterFails \/ TFL_Final \/ TFL_BeginWrite
  \/ UF_Start \/ UF_StartVisit \/ UF_Visit \/ UF_BeginWrite
  \/ FinishTmpWrite \/ Rename \/ AfterSave
  \/ Check_Run \/ DirectWrite_Begin \/ DirectWrite_End
  \/ Crash

LoadSpec == LoadInit /\ [][LoadNext]_vars

\* ---------------------------------------------------------------------
\* The pagination loops of one filter (wilsonart-scrapeTFL.js,
\* wilsonart-scrape.js) and of the discovery of
\* wilsonart-scrape-unfilteredTFL.js, on a site that may show anything
\* ---------------------------------------------------------------------
\* the highest page number the model tells apart: pageNo only names the
\* page in the URL and in the log of the two while loops
MaxPageNo == 4

\* --maxPages of wilsonart-scrape-unfilteredTFL.js (60 by default)
MAX_PAGES == 3

exceptPages == << pureVars, storeVars, detailsVars, loopVars, utilVars >>

nextPageNo(n) == IF n < MaxPageNo THEN n + 1 ELSE n

PagesInit ==
  /\ pgScript \in {"scrapeTFL", "scrape", "unfilteredTFL"}
  /\ pgPc = "loop"
  /\ pageNo = 1
  /\ seenSignatures = {}
  /\ pgShot \in PageShots
  /\ DetailsIdle /\ skipped = FALSE /\ lastFilter = "none" /\ UtilIdle
  /\ outPath = TFL_OUT_PATH
  /\ StoreInit
  /\ oldRec = EmptyRec /\ newRec = EmptyRec /\ merged = EmptyRec /\ swapped = EmptyRec
  /\ remerged = EmptyRec
  /\ mphase = "pages"
  /\ NoResolve

\* wilsonart-scrapeTFL.js: the loop ends here on a signature seen before
repeats(seen, shot) == shot.signature # "" /\ shot.signature \in seen

\* wilsonart-scrapeTFL.js: one pass of while (true)
Pages_TFL ==
  /\ pgScript = "scrapeTFL" /\ pgPc = "loop"
  /\ IF repeats(seenSignatures, pgShot)
       THEN pgPc' = "done" /\ UNCHANGED << pageNo, seenSignatures, pgShot >>
       ELSE /\ seenSignatures' = IF pgShot.signature # ""
                                   THEN seenSignatures \cup {pgShot.signature}
                                   ELSE seenSignatures
            /\ IF pgShot.count = 0 \/ ~pgShot.next
                 THEN pgPc' = "done" /\ UNCHANGED << pageNo, pgShot >>
                 ELSE /\ pageNo' = nextPageNo(pageNo)
                      /\ pgShot' \in PageShots
                      /\ pgPc' = "loop"
  /\ UNCHANGED << pgScript, exceptPages >>

\* goNextPage: there is a next link, and the click or the goto of the URL
\* with p + 1 leaves the URL of the page
goNextPage(shot, moved) == shot.next /\ moved

\* wilsonart-scrape.js: one pass of while (true)
Pages_Scrape ==
  /\ pgScript = "scrape" /\ pgPc = "loop"
  /\ \E moved \in BOOLEAN :
       IF ~goNextPage(pgShot, moved)
         THEN pgPc' = "done" /\ UNCHANGED << pageNo, pgShot >>
         ELSE /\ pageNo' = nextPageNo(pageNo)
              /\ pgShot' \in PageShots
              /\ pgPc' = "loop"
  /\ UNCHANGED << pgScript, seenSignatures, exceptPages >>

\* wilsonart-scrape-unfilteredTFL.js: one pass of
\* for (pageNo = 1; pageNo <= MAX_PAGES; pageNo++)
Pages_Unfiltered ==
  /\ pgScript = "unfilteredTFL" /\ pgPc = "loop"
  /\ \E moved \in BOOLEAN :
       IF ~goNextPage(pgShot, moved) \/ pageNo + 1 > MAX_PAGES
         THEN pgPc' = "done" /\ UNCHANGED << pageNo, pgShot >>
         ELSE /\ pageNo' = pageNo + 1
              /\ pgShot' \in PageShots
              /\ pgPc' = "loop"
  /\ UNCHANGED << pgScript, seenSignatures, exceptPages >>

PagesNext == Pages_TFL \/ Pages_Scrape \/ Pages_Unfiltered

\* every await of a pass settles: the page operations have timeouts
PagesSpec == PagesInit /\ [][PagesNext]_vars /\ WF_vars(PagesNext)

\* ---------------------------------------------------------------------
\* The filter loops on side bars of two filters, run to their end
\* ---------------------------------------------------------------------
TFL_StartRun == TFL_StartOn(FilterRuns, MaxFilterRuns)

Scrape_StartRun == Scrape_StartOn(FilterRuns, MaxFilterRuns)

\* the steps of a run that has started, the start of the write of
\* wilsonart-scrapeTFL.js apart
FilterStep ==
  \/ TFL_ApplyFilter \/ TFL_FilterFails \/ TFL_UnmappedFilter \/ TFL_Final
  \/ Scrape_Baseline \/ Scrape_ApplyFilter \/ Scrape_FilterFails \/ Scrape_UnmappedFilter
  \/ Scrape_Final \/ Scrape_BeginWrite
  \/ FinishTmpWrite \/ Rename \/ AfterSave

FilterNext == TFL_StartRun \/ Scrape_StartRun \/ FilterStep \/ TFL_BeginWrite \/ Crash

\* TFL_BeginWrite seen through pc: it is the one step that leaves "write"
\* in a run of wilsonart-scrapeTFL.js
TFL_WriteDue == script = "scrapeTFL" /\ pc = "write" /\ pc' = "tmp_open"

\* a run that lives goes on: every await of the loops settles (a page
\* operation ends or times out) and the writes are synchronous; only the
\* death of the process, Crash, is not bound to happen
FilterSpec ==
  Init /\ [][FilterNext]_vars /\ WF_vars(FilterStep) /\ WF_pc(TFL_WriteDue)

\* ---------------------------------------------------------------------
\* withRetry of wilsonart-scrapeTFL.js and wilsonart-scrape.js
\* ---------------------------------------------------------------------
\* the largest attempts drawn; fn is drawn with one call more
MaxAttempts == 3

\* a message is the sequence of its parts; includes looks for a part
includes(msg, part) == \E n \in DOMAIN msg : msg[n] = part

\* what a call of fn does: it returns a value or throws an error with a
\* message
Returns == [ok |-> TRUE, msg |-> << >>]

Throws(msg) == [ok |-> FALSE, msg |-> msg]

ErrorMessages ==
  { << "Execution context was destroyed", ", most likely because of a navigation." >>,
    << "Protocol error (Runtime.callFunctionOn): ", "Cannot find context with specified id" >>,
    << "Protocol error (Runtime.evaluate): ", "Target closed", "." >>,
    << "Navigation timeout of 60000 ms exceeded" >>,
    << >> }

CallOutcomes == {Returns} \cup { Throws(m) : m \in ErrorMessages }

ctxLost(msg) ==
  \/ includes(msg, "Execution context was destroyed")
  \/ includes(msg, "Cannot find context with specified id")
  \/ includes(msg, "Target closed")

\* the catch block throws the error again after the last attempt only
rethrows_lastOnly(lost, i, attempts) == i = attempts - 1

\* if (!ctxLost || i === attempts - 1) throw e
rethrows(lost, i, attempts) == ~lost \/ i = attempts - 1

\* all but the variables of withRetry are idle
QuietInit ==
  /\ DetailsIdle /\ skipped = FALSE /\ lastFilter = "none" /\ PagesIdle
  /\ outPath = TFL_OUT_PATH
  /\ StoreInit
  /\ oldRec = EmptyRec /\ newRec = EmptyRec /\ merged = EmptyRec /\ swapped = EmptyRec
  /\ remerged = EmptyRec
  /\ mphase = "util"
  /\ NoResolve

exceptUtil == << pureVars, storeVars, detailsVars, loopVars, pagesVars >>

RetryInit ==
  /\ PoolIdle /\ CompareIdle /\ FacetsIdle
  /\ wrFn \in [1 .. MaxAttempts + 1 -> CallOutcomes]
  /\ wrAttempts \in 0 .. MaxAttempts
  /\ wrI = 0 /\ wrCalls = 0 /\ wrLastErr = 0
  /\ wrPc = "loop" /\ wrValue = NoOutcome
  /\ QuietInit

\* one turn of the for loop: the call of fn, and the catch block when it
\* throws
Retry_Call ==
  /\ wrPc = "loop" /\ wrI < wrAttempts
  /\ LET call == wrCalls + 1
         did == wrFn[call]
     IN /\ wrCalls' = call
        /\ IF did.ok
             THEN /\ wrPc' = "returned" /\ wrValue' = Gave("value", call)
                  /\ UNCHANGED << wrI, wrLastErr >>
           ELSE /\ wrLastErr' = call
                /\ IF rethrows(ctxLost(did.msg), wrI, wrAttempts)
                     THEN /\ wrPc' = "threw" /\ wrValue' = Gave("error", call)
                          /\ UNCHANGED wrI
                   ELSE /\ wrI' = wrI + 1
                        /\ UNCHANGED << wrPc, wrValue >>
  /\ UNCHANGED << wrFn, wrAttempts, exceptRetry, exceptUtil >>

\* throw lastErr after the loop
Retry_Exhausted ==
  /\ wrPc = "loop" /\ ~(wrI < wrAttempts)
  /\ wrPc' = "threw" /\ wrValue' = Gave("error", wrLastErr)
  /\ UNCHANGED << wrFn, wrAttempts, wrI, wrCalls, wrLastErr, exceptRetry, exceptUtil >>

RetryNext == Retry_Call \/ Retry_Exhausted

RetrySpec == RetryInit /\ [][RetryNext]_vars

\* ---------------------------------------------------------------------
\* runPool of wilsonart-scrape-unfilteredTFL.js
\* ---------------------------------------------------------------------
\* the largest number of items drawn
MaxItems == 3

\* numbers are counted in halves, so that 3 stands for 1.5; NaN is -1
NaN == -1

Whole(n) == 2 * n

\* Number(raw) of the values drawn
Number(raw) ==
  CASE raw = "0" -> Whole(0)
    [] raw = "1" -> Whole(1)
    [] raw = "2" -> Whole(2)
    [] raw = "2.5" -> 5
    [] raw = "4" -> Whole(4)
    [] raw = "20" -> Whole(20)
    [] OTHER -> NaN

MathMin(a, b) == IF a = NaN \/ b = NaN THEN NaN ELSE IF a < b THEN a ELSE b

MathMax(a, b) == IF a = NaN \/ b = NaN THEN NaN ELSE IF a > b THEN a ELSE b

\* the values of --concurrency=; 4 is the default
ConcurrencyFlags == {"0", "1", "2", "2.5", "4", "20", "abc"}

\* CONCURRENCY = Math.max(1, Math.min(16, Number(flag('concurrency', 4))))
concurrencyOf(raw) == MathMax(Whole(1), MathMin(Whole(16), Number(raw)))

\* new Array(len) takes a whole number that is not negative, and throws a
\* RangeError for any other
validLength(len) == len # NaN /\ len >= 0 /\ len % 2 = 0

PoolInit ==
  /\ RetryIdle /\ CompareIdle /\ FacetsIdle
  /\ plItems \in 0 .. MaxItems
  /\ plLimit \in { concurrencyOf(raw) : raw \in ConcurrencyFlags }
  /\ plFails \in SUBSET (1 .. plItems)
  /\ plQ = << >> /\ plWorkers = << >> /\ plCalls = [n \in 1 .. plItems |-> 0]
  /\ plLogged = {} /\ plPc = "call"
  /\ QuietInit

\* the call up to await Promise.all(workers): q is a copy of items, and
\* each worker of the new array runs up to its first await, that is, it
\* shifts an item and invokes the worker function for it
Pool_Start ==
  /\ plPc = "call"
  /\ LET len == MathMin(plLimit, Whole(plItems))
         k == len \div 2
     IN IF validLength(len)
          THEN /\ plWorkers' = [r \in 1 .. k |-> r]
               /\ plQ' = [n \in 1 .. plItems - k |-> k + n]
               /\ plCalls' = [n \in 1 .. plItems |-> IF n <= k THEN 1 ELSE 0]
               /\ plPc' = "await"
        ELSE /\ plPc' = "threw"
             /\ UNCHANGED << plWorkers, plQ, plCalls >>
  /\ UNCHANGED << plItems, plLimit, plFails, plLogged, exceptPool, exceptUtil >>

\* the item the worker takes after the one it held: q.shift() while
\* q.length, none (0) after that
nextItem(q) == IF q # << >> THEN Head(q) ELSE 0

\* the worker function settles for the item of one of the workers; when it
\* threw, the error is logged; the worker then goes round its loop
Pool_Settle ==
  /\ plPc = "await"
  /\ \E r \in DOMAIN plWorkers :
       /\ plWorkers[r] # 0
       /\ plLogged' = IF plWorkers[r] \in plFails THEN plLogged \cup {plWorkers[r]}
                      ELSE plLogged
       /\ LET item == nextItem(plQ)
          IN /\ plWorkers' = [plWorkers EXCEPT ![r] = item]
             /\ plQ' = IF plQ # << >> THEN Tail(plQ) ELSE plQ
             /\ plCalls' = IF item # 0 THEN [plCalls EXCEPT ![item] = @ + 1] ELSE plCalls
  /\ UNCHANGED << plItems, plLimit, plFails, plPc, exceptPool, exceptUtil >>

\* Promise.all(workers) is fulfilled: every worker has left its loop
Pool_Done ==
  /\ plPc = "await"
  /\ \A r \in DOMAIN plWorkers : plWorkers[r] = 0
  /\ plPc' = "done"
  /\ UNCHANGED << plItems, plLimit, plFails, plQ, plWorkers, plCalls, plLogged, exceptPool,
                  exceptUtil >>

PoolNext == Pool_Start \/ Pool_Settle \/ Pool_Done

PoolSpec == PoolInit /\ [][PoolNext]_vars

\* ---------------------------------------------------------------------
\* The compare UI of compare.js
\* ---------------------------------------------------------------------
\* the largest number of rows the table shows
MaxRows == 2

\* a row without the cell asked for
NoCell == "<no cell>"

\* the key of a row without data: tr.dataset.compareKey is not set
NoKey == << >>

\* node ? node.textContent.trim() : ''
textContent(node) == IF node \in {NoCell, " "} THEN "" ELSE node

\* [type, code, name].filter(Boolean), the parts that join('::') puts
\* together; no parts, no data
extractRowData(tr) ==
  LET parts == << textContent(tr.type), textContent(tr.code), textContent(tr.name) >>
  IN SubSeqAt(parts, { n \in DOMAIN parts : parts[n] # "" })

\* the rows the page puts into #body-rows: the texts of their cells
\* td.col-type, td.col-code and td.col-name; they come without the compare
\* cell and without the class is-compared
PageRows ==
  { tr \in [type : {NoCell, "TFL"}, code : {" ", "7919"}, name : {"", "Oak"},
            compareKey : {NoKey}, button : {FALSE}, compared : {FALSE}] :
      tr.type = "TFL" => tr.code = "7919" /\ tr.name = "Oak" }

Pages == UNION { [1 .. n -> PageRows] : n \in 0 .. MaxRows }

\* a row is marked whatever the selection holds
isSelected_always(key, selected) == key # NoKey

\* key ? selectedProducts.has(key) : false
isSelected(key, selected) == key # NoKey /\ key \in selected

updateRowState(tr, selected) ==
  [tr EXCEPT !.compared = isSelected(tr.compareKey, selected)]

updateRowStates(rows, selected) ==
  [n \in DOMAIN rows |->
     IF rows[n].button THEN updateRowState(rows[n], selected) ELSE rows[n]]

prepareRow(tr, selected) ==
  IF extractRowData(tr) = NoKey THEN tr
  ELSE updateRowState([tr EXCEPT !.compareKey = extractRowData(tr), !.button = TRUE],
                      selected)

renderAllRows(rows, selected) ==
  updateRowStates([n \in DOMAIN rows |-> prepareRow(rows[n], selected)], selected)

\* updateSidebar: the container is hidden without a selection, and shows a
\* card for every selected product with one
sidebarHidden(selected) == Cardinality(selected) = 0

sidebarCards(selected) == selected

\* init on a page that holds #head-row and #body-rows, with rows or none
CompareInit ==
  /\ RetryIdle /\ PoolIdle /\ FacetsIdle
  /\ selectedProducts = {}
  /\ \E page \in Pages : cmpRows = renderAllRows(page, {})
  /\ cmpHidden = sidebarHidden({})
  /\ cmpCards = sidebarCards({})
  /\ cmpLast = "init"
  /\ QuietInit

\* the page replaces the rows of #body-rows; the observer of the body
\* runs before the next event: ensureHeader, renderAllRows, updateSidebar
Compare_Render ==
  /\ cmpLast # "off"
  /\ \E page \in Pages : cmpRows' = renderAllRows(page, selectedProducts)
  /\ cmpHidden' = sidebarHidden(selectedProducts)
  /\ cmpCards' = sidebarCards(selectedProducts)
  /\ cmpLast' = "render"
  /\ UNCHANGED << selectedProducts, exceptCompare, exceptUtil >>

\* a click on the compare button of a row
Compare_Toggle ==
  /\ cmpLast # "off"
  /\ \E n \in DOMAIN cmpRows :
       /\ cmpRows[n].button
       /\ LET latest == extractRowData(cmpRows[n])
              selected == IF latest = NoKey THEN selectedProducts
                          ELSE IF latest \in selectedProducts
                            THEN selectedProducts \ {latest}
                          ELSE selectedProducts \cup {latest}
          IN /\ selectedProducts' = selected
             /\ IF latest = NoKey
                  THEN UNCHANGED << cmpRows, cmpHidden, cmpCards >>
                ELSE /\ cmpRows' = updateRowStates(cmpRows, selected)
                     /\ cmpHidden' = sidebarHidden(selected)
                     /\ cmpCards' = sidebarCards(selected)
  /\ cmpLast' = "toggle"
  /\ UNCHANGED << exceptCompare, exceptUtil >>

\* a click on the remove button of a card of the sidebar
Compare_RemoveCard ==
  /\ cmpLast # "off"
  /\ \E key \in cmpCards :
       IF key # NoKey /\ key \in selectedProducts
         THEN /\ selectedProducts' = selectedProducts \ {key}
              /\ cmpRows' = updateRowStates(cmpRows, selectedProducts \ {key})
              /\ cmpHidden' = sidebarHidden(selectedProducts \ {key})
              /\ cmpCards' = sidebarCards(selectedProducts \ {key})
       ELSE UNCHANGED << selectedProducts, cmpRows, cmpHidden, cmpCards >>
  /\ cmpLast' = "remove"
  /\ UNCHANGED << exceptCompare, exceptUtil >>

\* clearSelections, on a click on the close button of the sidebar
Compare_Clear ==
  /\ cmpLast # "off"
  /\ IF Cardinality(selectedProducts) = 0
       THEN UNCHANGED << selectedProducts, cmpRows, cmpHidden, cmpCards >>
     ELSE /\ selectedProducts' = {}
          /\ cmpRows' = updateRowStates(cmpRows, {})
          /\ cmpHidden' = sidebarHidden({})
          /\ cmpCards' = sidebarCards({})
  /\ cmpLast' = "clear"
  /\ UNCHANGED << exceptCompare, exceptUtil >>

CompareNext == Compare_Render \/ Compare_Toggle \/ Compare_RemoveCard \/ Compare_Clear

CompareSpec == CompareInit /\ [][CompareNext]_vars

\* ---------------------------------------------------------------------
\* Filters of the viewer: src/unnamed/part_000, part_001 and part_002
\* ---------------------------------------------------------------------
\* the largest number of records of the data
MaxData == 2

FilterVersions == {"part_000", "part_001", "part_002"}

\* the records of the data: name, surface-group, no_repeat (true, false or
\* not there) and texture_image_url; NoValue is a property that is not there
ViewerRows ==
  { [name |-> "Oak", group |-> "HPL", no_repeat |-> "true", texture_image_url |-> "a.jpg"],
    [name |-> "Elm", group |-> "TFL", no_repeat |-> "false", texture_image_url |-> NoValue],
    [name |-> "Oak", group |-> NoValue, no_repeat |-> NoValue, texture_image_url |-> NoValue] }

DataSets == UNION { [1 .. n -> ViewerRows] : n \in 0 .. MaxData }

\* what is typed into the search box
Queries == {"", " ", "Oak"}

\* v == null ? [] : (Array.isArray(v) ? v : [v])
arrify(v) == IF v = NoValue THEN << >> ELSE << v >>

\* the getValues of matchesFacets
facetValuesOf(row, facetKey) ==
  IF facetKey = "surface-group" THEN arrify(row.group)
  ELSE IF row.no_repeat = "true" THEN << "Yes" >>
  ELSE IF row.no_repeat = "false" THEN << "No" >>
  ELSE << >>

\* buildFacets: the values of a facet that the data holds, one checkbox each
facetMeta(data, facetKey) ==
  UNION { Range(facetValuesOf(data[n], facetKey)) : n \in DOMAIN data }

\* mustMatch: with a Set, no pick or a pick among the values of the row
mustMatch(picked, rowVals) ==
  picked.values = {} \/ \E v \in picked.values : v \in Range(rowVals)

\* mustMatch with a pick that is no Set: picked.size is undefined, not 0,
\* and for (const v of picked) throws a TypeError
mustMatchThrows(picked) == ~picked.isSet

hasImage(row) == row.texture_image_url # NoValue

imageToggleOk(version, st, row) ==
  IF version = "part_002"
    THEN IF st.withImageOnly THEN hasImage(row)
         ELSE IF st.withoutImageOnly THEN ~hasImage(row)
         ELSE TRUE
  ELSE ~st.withImageOnly \/ hasImage(row)

matchesFacets(version, st, row) ==
  /\ \A k \in FACET_KEYS : mustMatch(st.facets[k], facetValuesOf(row, k))
  /\ imageToggleOk(version, st, row)

\* the texts drawn are single words; s.includes(q) is s = q on them
matchesQuery(st, row) ==
  LET q == toLowerCase(trim(st.query))
      hay == { row.name, row.group, row.texture_image_url } \ {NoValue}
  IN q = "" \/ \E text \in hay : toLowerCase(text) = q

\* what a call gives: the rows it returns, or a TypeError
Returned(rows) == [threw |-> FALSE, rows |-> rows]

TypeError == [threw |-> TRUE, rows |-> << >>]

\* Filters.apply(data): the filter calls matchesFacets for the first row,
\* which throws when a facet of the state is no Set
apply(version, st, data) ==
  IF data # << >> /\ \E k \in FACET_KEYS : mustMatchThrows(st.facets[k])
    THEN TypeError
  ELSE Returned(SubSeqAt(data, { n \in DOMAIN data :
                                   matchesFacets(version, st, data[n]) /\
                                   matchesQuery(st, data[n]) }))

\* the state Filters.init leaves: part_000 assigns DEFAULT_STATE, whose
\* facets object, Sets included, becomes the facets object of state;
\* part_001 and part_002 copy a new default state
initState(version, defaults) ==
  IF version = "part_000" THEN [createDefaultState EXCEPT !.facets = defaults]
  ELSE createDefaultState

\* the state Filters.reset leaves: part_000 assigns
\* JSON.parse(JSON.stringify(DEFAULT_STATE)), in which every Set has become
\* {}; part_001 and part_002 call applyState(createDefaultState())
resetState(version, st) ==
  IF version = "part_000"
    THEN [createDefaultState EXCEPT !.facets = [k \in FACET_KEYS |-> PlainObject]]
  ELSE createDefaultState

\* state.facets is the facets object of DEFAULT_STATE
sharesDefaults(version, st) ==
  version = "part_000" /\ \A k \in FACET_KEYS : st.facets[k].isSet

\* part_002 leaves the image toggles out when every record has an image
hideImageToggles(version, data) ==
  version = "part_002" /\ data # << >> /\ \A n \in DOMAIN data : hasImage(data[n])

\* onChange of the viewer: visible = Filters.apply(rawData)
Changed(version, st, data) ==
  LET got == apply(version, st, data)
  IN /\ fcThrew' = got.threw
     /\ fcVisible' = IF got.threw THEN fcVisible ELSE got.rows

FacetsInit ==
  /\ RetryIdle /\ PoolIdle /\ CompareIdle
  /\ fcVersion \in FilterVersions
  /\ fcData \in DataSets
  /\ fcDefault = createDefaultState.facets
  /\ fcState = initState(fcVersion, fcDefault)
  /\ fcVisible = apply(fcVersion, fcState, fcData).rows
  /\ fcThrew = FALSE
  /\ fcLast = "init"
  /\ QuietInit

\* another file is loaded: Filters.init with its data
Filters_Init ==
  /\ fcLast # "off"
  /\ \E data \in DataSets :
       /\ fcData' = data
       /\ fcState' = initState(fcVersion, fcDefault)
       /\ Changed(fcVersion, initState(fcVersion, fcDefault), data)
  /\ fcLast' = "init"
  /\ UNCHANGED << fcVersion, fcDefault, exceptFacets, exceptUtil >>

\* a facet checkbox changes: the value is added to the Set of the facet
\* or taken from it; what state.facets holds after a reset of part_000 has
\* neither add nor delete
Filters_ToggleFacet ==
  /\ fcLast # "off"
  /\ \E fk \in FACET_KEYS : \E vv \in facetMeta(fcData, fk) :
       LET set == fcState.facets[fk]
           picked == IF vv \in set.values THEN set.values \ {vv} ELSE set.values \cup {vv}
           st == [fcState EXCEPT !.facets[fk] = SetOf(picked)]
       IN IF ~set.isSet
            THEN /\ fcThrew' = TRUE
                 /\ UNCHANGED << fcState, fcDefault, fcVisible >>
          ELSE /\ fcState' = st
               /\ fcDefault' = IF sharesDefaults(fcVersion, fcState) THEN st.facets
                                ELSE fcDefault
               /\ Changed(fcVersion, st, fcData)
  /\ fcLast' = "facet"
  /\ UNCHANGED << fcVersion, fcData, exceptFacets, exceptUtil >>

\* one of the image checkboxes changes; part_002 has two, which exclude
\* each other
Filters_ToggleImage ==
  /\ fcLast # "off" /\ ~hideImageToggles(fcVersion, fcData)
  /\ \E box \in {"with", "without"} :
       /\ box = "without" => fcVersion = "part_002"
       /\ LET st == IF box = "with"
                      THEN [fcState EXCEPT !.withImageOnly = ~@,
                                           !.withoutImageOnly = IF fcState.withImageOnly
                                                                  THEN @ ELSE FALSE]
                    ELSE [fcState EXCEPT !.withoutImageOnly = ~@,
                                         !.withImageOnly = IF fcState.withoutImageOnly
                                                             THEN @ ELSE FALSE]
          IN /\ fcState' = st
             /\ Changed(fcVersion, st, fcData)
  /\ fcLast' = "image"
  /\ UNCHANGED << fcVersion, fcData, fcDefault, exceptFacets, exceptUtil >>

\* the search box changes, and its timer fires
Filters_Query ==
  /\ fcLast # "off"
  /\ \E q \in Queries :
       /\ fcState' = [fcState EXCEPT !.query = q]
       /\ Changed(fcVersion, [fcState EXCEPT !.query = q], fcData)
  /\ fcLast' = "query"
  /\ UNCHANGED << fcVersion, fcData, fcDefault, exceptFacets, exceptUtil >>

\* Filters.reset(): the state is reset, the UI is built again and onChange
\* is called
Filters_Reset ==
  /\ fcLast # "off"
  /\ fcState' = resetState(fcVersion, fcState)
  /\ Changed(fcVersion, resetState(fcVersion, fcState), fcData)
  /\ fcLast' = "reset"
  /\ UNCHANGED << fcVersion, fcData, fcDefault, exceptFacets, exceptUtil >>

FacetsNext ==
  \/ Filters_Init \/ Filters_ToggleFacet \/ Filters_ToggleImage \/ Filters_Query
  \/ Filters_Reset

FacetsSpec == FacetsInit /\ [][FacetsNext]_vars

\* ---------------------------------------------------------------------
\* Properties of the merge
\* ---------------------------------------------------------------------
\* the string values an array (or a single string) holds
ValuesOf(v) ==
  IF v.t = "arr" THEN { v.a[i].s : i \in { j \in DOMAIN v.a : v.a[j].k = "str" } }
  ELSE IF v.t = "str" THEN {v.s} ELSE {}

\* the number of values a field holds: the length of an array, 1 for a string
SizeOf(v) == IF v.t = "arr" THEN Len(v.a) ELSE IF v.t = "str" THEN 1 ELSE 0

\* the values under the canonical key and its aliases
VariantValues(rec, key) ==
  UNION { ValuesOf(rec[getFieldVariants(key)[i]]) : i \in DOMAIN getFieldVariants(key) }

AliasKeys ==
  UNION { Range(FIELD_ALIASES[c]) \ {c} : c \in DOMAIN FIELD_ALIASES }

\* C1: merging the same fragment a second time changes nothing:
\* merge(merge(R, F), F) = merge(R, F).
C1_Idempotent == mphase = "remerged" => remerged = merged

\* a fragment that added something to the old record has been merged twice
C1_Witness ==
  /\ mphase = "remerged"
  /\ merged # oldRec
  /\ HasKey(newRec, "color") /\ HasKey(oldRec, "color")

\* C2: every key of the old record is a key of the merged record.
C2_NoFieldDeleted ==
  mphase # "input" => \A k \in AllKeys : HasKey(oldRec, k) => HasKey(merged, k)

\* the old record has a key the fragment does not have, and the merge has run
C2_Witness ==
  /\ mphase = "merged"
  /\ \E k \in AllKeys : HasKey(oldRec, k) /\ ~HasKey(newRec, k)

C5_FinishKeysUnique ==
  mphase # "input" =>
    LET fin == merged["finish"].a
    IN \A i, j \in DOMAIN fin :
         (i # j /\ fin[i].k = "obj" /\ fin[j].k = "obj") => finishKey(fin[i]) # finishKey(fin[j])

\* C6: the canonical key of the merged record holds exactly the values found
\* under the canonical key and its aliases in the two records, each once,
\* values that differ in case being different values.
C6_AliasUnion ==
  mphase # "input" =>
    \A i \in DOMAIN ARRAY_FIELDS :
      LET key == ARRAY_FIELDS[i]
          all == VariantValues(oldRec, key) \cup VariantValues(newRec, key)
      IN all # {} =>
           /\ merged[key].t = "arr"
           /\ ValuesOf(merged[key]) = all
           /\ Len(merged[key].a) = Cardinality(all)

\* the old record has only color:[Red], the fragment colors:[Blue]
C6_Witness ==
  /\ mphase = "merged"
  /\ oldRec = Rec1("color", Arr(<< StrE("Red") >>))
  /\ newRec = Rec1("colors", Arr(<< StrE("Blue") >>))
  /\ ValuesOf(merged["colors"]) = {"Red", "Blue"}

\* C7 as stated: an alias key that only the fragment has is not a key of the
\* merged record.
C7_AliasNotReemitted ==
  mphase # "input" =>
    \A a \in AliasKeys : (HasKey(newRec, a) /\ ~HasKey(oldRec, a)) => ~HasKey(merged, a)

\* C7 as amended: the union goes to the canonical key, and an alias key that
\* only the fragment has is copied to the merged record with the fragment's value.
C7_AliasCopied ==
  mphase # "input" =>
    /\ \A a \in AliasKeys : (HasKey(newRec, a) /\ ~HasKey(oldRec, a)) => merged[a] = newRec[a]
    /\ \A c \in {"colors", "performance_enhancements", "specialty_features"} :
         ValuesOf(newRec[FIELD_ALIASES[c][2]]) \subseteq ValuesOf(merged[c])

\* the fragment alone has color, with a label the old colors did not have
C7_Witness ==
  /\ mphase = "merged"
  /\ ~HasKey(oldRec, "color") /\ HasKey(oldRec, "colors")
  /\ newRec["color"] = Arr(<< StrE("Blue") >>)
  /\ "Blue" \notin ValuesOf(oldRec["colors"])
  /\ "Blue" \in ValuesOf(merged["colors"])

\* ---------------------------------------------------------------------
\* Properties of the saves
\* ---------------------------------------------------------------------
\* the codes of the records of an array, in upper case
CodesOf(recs) == { upperKey(recs[i]) : i \in { j \in DOMAIN recs : truthy(recs[j]["code"]) } }

\* C8: a save writes the union of the codes of the old file and of the run,
\* never the records of the run alone: when a save has replaced the index,
\* the index holds every code the old file held and every code of the run.
C8_SaveKeepsEveryCode ==
  pc = "saved" => CodesOf(file.recs) = CodesOf(savedPrev) \cup CodesOf(savedRun)

\* C9: the index is never a partly written file.
C9_SaveIsAtomic == file.st # "torn"

\* C10: no two records of the index have the same normalized code.
C10_NormalizedCodesUnique ==
  file.st = "ok" =>
    \A i, j \in DOMAIN file.recs :
      (i # j /\ truthy(file.recs[i]["code"]) /\ truthy(file.recs[j]["code"]))
        => normalizeCodeValue(file.recs[i]["code"]) # normalizeCodeValue(file.recs[j]["code"])

NoValidCandidate(rec) ==
  \A i \in DOMAIN gatherCandidateCodes(rec) : ~isValidCodeValue(gatherCandidateCodes(rec)[i])

\* C12: a record for which no candidate code is valid is kept in the output
\* under its own (normalized) code and is reported as unresolved: the audit
\* keeps it in the array it writes and lists it, and ends with a nonzero exit
\* code; a save of wilsonart-scrape2.js writes every record of its run.
C12_UnresolvedKeptAndListed ==
  /\ (script = "check" /\ pc = "direct_write") =>
        \A i \in DOMAIN file.recs :
          NoValidCandidate(file.recs[i]) =>
            /\ \E j \in DOMAIN pending :
                 /\ codeString(pending[j]) = normalizeCodeValue(file.recs[i]["code"])
                 /\ pending[j]["product-link"] = file.recs[i]["product-link"]
            /\ \E j \in DOMAIN unresolved :
                 /\ codeString(unresolved[j]) = normalizeCodeValue(file.recs[i]["code"])
                 /\ unresolved[j]["product-link"] = file.recs[i]["product-link"]
  /\ (script = "idle" /\ ended = "check" /\ exitCode = 0 /\ file.st = "ok") =>
        \A i \in DOMAIN file.recs : ~NoValidCandidate(file.recs[i])
  /\ (script = "scrape2" /\ pc = "tmp_open") =>
        \A i \in DOMAIN savedRun :
          \E j \in DOMAIN pending : codeKey(pending[j]) = codeKey(savedRun[i])

\* the candidates in the stated order of priority: the code of the record,
\* the tokens of the query of its link, those of the path of its link, the
\* code of the detail entry, the tokens of the image URL
StatedCandidates(p, d) ==
  PushAll(<< p["code"] >>
            \o TokenValues(RunsOf(SearchParamValues(LinkOf(p))))
            \o TokenValues(RunsOf(PathSegments(LinkOf(p))))
            \o << d["code"] >>
            \o (IF truthy(d["texture_image_url"])
                THEN TokenValues(collectTokensFromUrl(d["texture_image_url"].s)) ELSE << >>))

\* C13: the resolution returns the first valid candidate in the order
\* existing code, tokens of the product URL (query parameters before path
\* segments), SKU of the detail entry, tokens of the image URL, and no code
\* when none of these is valid.
C13_FirstValidInStatedOrder ==
  mphase = "resolved" => preferred = FirstValid(StatedCandidates(product, detail))

\* ---------------------------------------------------------------------
\* Properties of the validation
\* ---------------------------------------------------------------------
\* the characters of the normalized code of the record
NormalizedChars(rec) == Chars(normalizeCodeValue(rec["code"]))

\* only A-Z and 0-9, three to seven characters, two of them digits
StatedValid(cs) ==
  /\ \A i \in DOMAIN cs : cs[i] \in UpperLetters \cup Digits
  /\ Len(cs) \in 3..7
  /\ \E i, j \in DOMAIN cs : i < j /\ cs[i] \in Digits /\ cs[j] \in Digits

\* an optional letter, three to five digits, then nothing, a letter or K-dd
Scrape2Valid(cs) ==
  \E pre \in {0, 1}, n \in 3..5, suf \in {0, 1, 4} :
    /\ Len(cs) = pre + n + suf
    /\ pre = 1 => cs[1] \in UpperLetters
    /\ \A i \in (pre + 1)..(pre + n) : cs[i] \in Digits
    /\ suf = 1 => cs[Len(cs)] \in UpperLetters
    /\ suf = 4 => /\ cs[pre + n + 1] = "K" /\ cs[pre + n + 2] = "-"
                  /\ cs[pre + n + 3] \in Digits /\ cs[pre + n + 4] \in Digits

\* C14 as stated: in every script a normalized code is valid exactly when it
\* holds only A-Z and 0-9, has three to seven characters and two digits.
C14_ValidExactlyWhenShaped ==
  mphase = "validated" =>
    /\ verdict.tfl = StatedValid(NormalizedChars(product))
    /\ verdict.scrape2 = StatedValid(NormalizedChars(product))

\* C14 as amended: wilsonart-scrapeTFL.js holds a normalized code valid
\* exactly when it has only A-Z and 0-9, three to seven characters and two
\* digits; wilsonart-scrape2.js holds it valid exactly when it is an optional
\* letter, three to five digits, then nothing, one letter or K-dd.
C14_ValidPerScript ==
  mphase = "validated" =>
    /\ verdict.tfl = StatedValid(NormalizedChars(product))
    /\ verdict.scrape2 = Scrape2Valid(NormalizedChars(product))

C14_Witness ==
  /\ mphase = "validated" /\ codeString(product) = "AB12"
  /\ verdict.tfl /\ ~verdict.scrape2

\* ---------------------------------------------------------------------
\* Properties of the persisted codes
\* ---------------------------------------------------------------------
\* C15: a record of the index that has a valid code keeps that code through
\* a merging save and through the audit: the array that replaces the index
\* holds a record with exactly that code.
C15_ValidCodeKept ==
  (/\ file.st = "ok"
   /\ \/ script \in {"scrapeTFL", "unfilteredTFL", "scrape2"} /\ pc = "tmp_written"
      \/ script = "check" /\ pc = "direct_write") =>
    \A i \in DOMAIN file.recs :
      isValidCodeValue(codeString(file.recs[i])) =>
        \E j \in DOMAIN pending : pending[j]["code"] = file.recs[i]["code"]

C15_Witness ==
  /\ script = "check" /\ pc = "direct_write" /\ file.st = "ok"
  /\ \E i \in DOMAIN file.recs : isValidCodeValue(codeString(file.recs[i]))
  /\ \E i \in DOMAIN file.recs : ~isValidCodeValue(codeString(file.recs[i]))

\* ---------------------------------------------------------------------
\* Properties of the scalar fields across runs
\* ---------------------------------------------------------------------
\* C16: the name and the product link of a record are written once: when a
\* run of wilsonart-scrapeTFL.js or wilsonart-scrape-unfilteredTFL.js
\* replaces the index, a record that had a name or a link in the index has
\* the same name and link in the array that replaces it.
C16_FirstWriterWins ==
  (file.st = "ok" /\ script \in {"scrapeTFL", "unfilteredTFL"} /\ pc = "tmp_written") =>
    \A i \in DOMAIN file.recs : \A j \in DOMAIN pending :
      pending[j]["code"] = file.recs[i]["code"] =>
        \A k \in {"name", "product-link"} :
          hasValue(file.recs[i][k]) => pending[j][k] = file.recs[i][k]

\* ---------------------------------------------------------------------
\* Properties of the exit of the audit
\* ---------------------------------------------------------------------
\* C17: the exit code of the audit tells its three outcomes apart: 0 when it
\* went through and every record of the index has a valid code, 4 when it
\* went through and a record is unresolved, 2 or 3 when it failed on the
\* file; an audit that leaves no readable index never ends with 0 or 4.
C17_AuditExitCodes ==
  (script = "idle" /\ ended = "check") =>
    /\ exitCode \in {0, 2, 3, 4}
    /\ exitCode = 0 =>
         /\ file.st = "ok"
         /\ \A i \in DOMAIN file.recs : isValidCodeValue(codeString(file.recs[i]))
    /\ exitCode = 4 =>
         /\ file.st = "ok"
         /\ \E i \in DOMAIN file.recs : ~isValidCodeValue(codeString(file.recs[i]))
    /\ file.st # "ok" => exitCode \in {2, 3}

C17_Witness ==
  script = "idle" /\ ended = "check" /\ exitCode = 4 /\ file.st = "ok"

\* ---------------------------------------------------------------------
\* Properties of the merge in both orders and on mixed types
\* ---------------------------------------------------------------------
\* the values a field holds: the elements of an array, a string itself
ValuesIn(v) ==
  IF v.t = "arr" THEN Range(v.a) ELSE IF v.t = "str" THEN { StrE(v.s) } ELSE {}

FinishPair(e) ==
  finishKey(IF e.k = "obj" THEN [code |-> e.code, name |-> e.name]
            ELSE [code |-> Undef, name |-> e.s])

\* the values of a field of a record, which the merge looks up under the key
\* and, for a canonical array key, under its variants
ValuesUnder(rec, k) ==
  IF k = "finish" THEN { FinishPair(e) : e \in ValuesIn(rec[k]) }
  ELSE IF k \in Range(ARRAY_FIELDS)
       THEN UNION { ValuesIn(rec[v]) : v \in Range(getFieldVariants(k)) }
       ELSE ValuesIn(rec[k])

\* one record holds an array under k and the other a string
MixedTypes(k) ==
  \/ oldRec[k].t = "arr" /\ newRec[k].t = "str"
  \/ oldRec[k].t = "str" /\ newRec[k].t = "arr"

Saving == pc \in {"tmp_open", "tmp_written", "saved"}

\* C20: while wilsonart-scrape-unfilteredTFL.js saves, no product waits in
\* the queue and no visit is open, and the array it writes is the Map with
\* the result of every visit; a step taken during a save never changes the
\* Map, and the index changes only by the rename of the array written.
C20_SavesAreSerial ==
  /\ [](script = "unfilteredTFL" /\ Saving =>
          /\ todo = << >> /\ inflight = << >>
          /\ pending = writeIndex(products))
  /\ [][/\ (script # "idle" /\ Saving /\ script' = script) => products' = products
        /\ (script = "unfilteredTFL" /\ file' # file) =>
              (pc = "tmp_written" /\ file' = Content(pending))]_vars

C20_Witness ==
  /\ script = "unfilteredTFL" /\ pc = "tmp_written"
  /\ file.st = "missing" /\ Len(pending) = 2 /\ tmpFile = Content(pending)

\* ---------------------------------------------------------------------
\* Properties of the details run
\* ---------------------------------------------------------------------
\* a value that is there and not empty
NonEmptyField(v) == v \notin {NoValue, "", " ", "[]", "{}"}

\* C21: once the details run has loaded the file, every non-empty field
\* other than texture_scale that a row had when the run began has the
\* same value in the row of the run and in the row of the file.
C21_OnlyTextureScaleChanges ==
  dPc \in {"code", "done"} =>
    \A i \in DOMAIN dStart : \A k \in DetailKeys \ {"texture_scale"} :
      NonEmptyField(dStart[i][k]) =>
        /\ GetRow(dOut, dStart[i]["code"])[k] = dStart[i][k]
        /\ GetRow(dFile, dStart[i]["code"])[k] = dStart[i][k]

KeepsValue(old, new) ==
  IF old.t = "arr" THEN new.t = "arr" /\ Range(old.a) \subseteq Range(new.a)
  ELSE IF old = Absent THEN TRUE
  ELSE new = old

\* C22: when wilsonart-scrape2.js is about to rename its array over an
\* index it could read, every record of the index has a record with its
\* code in the array, and every value of every field of the index record
\* (the scalar, or each element of an array) is in that record.
C22_UpsertKeepsValues ==
  (script = "scrape2" /\ pc = "tmp_written" /\ file.st = "ok") =>
    \A i \in DOMAIN file.recs :
      \E j \in DOMAIN pending :
        /\ codeKey(pending[j]) = normalizedKey_scrape2(file.recs[i])
        /\ \A k \in AllKeys : KeepsValue(file.recs[i][k], pending[j][k])

\* ---------------------------------------------------------------------
\* Properties of the filter loops
\* ---------------------------------------------------------------------
FilterScripts == {"scrape", "scrapeTFL"}

\* the index on disk is the array writeOutput makes of the store
StoreOnDisk ==
  /\ file.st = "ok"
  /\ file.recs = IF script = "scrape" THEN writeOutput_scrape(products)
                 ELSE writeOutput(file, products)

\* C23: when the next filter is about to start and the filter before it was
\* processed, the index on disk holds every record of the store.
C23_SavedBeforeNextFilter ==
  (/\ script \in FilterScripts /\ pc = "filters" /\ todo # << >>
   /\ lastFilter = "processed" /\ products # << >>) => StoreOnDisk

C25_PaginationEnds == <>(pgPc = "done")
\* ---------------------------------------------------------------------
\* withRetry
\* ---------------------------------------------------------------------
\* the calls of fn made so far that returned a value
Succeeded == { n \in 1 .. wrCalls : wrFn[n].ok }

\* C26: withRetry calls fn at most attempts times; when it returns, it
\* returns the value of the first call that succeeded, which is the last
\* call made; every call that is followed by another one threw a
\* context-lost error; and an error that is not context-lost is thrown
\* again at once: it is the error of the last call made
C26_BoundedRetries ==
  wrPc # "off" =>
    /\ wrCalls <= wrAttempts
    /\ wrPc = "returned" => Succeeded = {wrCalls} /\ wrValue = Gave("value", wrCalls)
    /\ wrPc # "returned" => Succeeded = {}
    /\ \A n \in 1 .. wrCalls - 1 :
         ~wrFn[n].ok /\ ctxLost(wrFn[n].msg)
    /\ \A n \in 1 .. wrCalls :
         ~wrFn[n].ok /\ ~ctxLost(wrFn[n].msg) =>
           n = wrCalls /\ wrPc = "threw" /\ wrValue = Gave("error", n)

\* withRetry threw the error of its second call, which was not context-lost,
\* with an attempt left
C26_Witness ==
  /\ wrPc = "threw" /\ wrCalls = 2 /\ wrAttempts = 3
  /\ ~ctxLost(wrFn[2].msg)
  /\ wrValue = Gave("error", 2)
\* ---------------------------------------------------------------------
\* runPool
\* ---------------------------------------------------------------------
\* the workers that hold an item
ActiveWorkers == { r \in DOMAIN plWorkers : plWorkers[r] # 0 }

\* C27: no item is given to the worker twice, never more than
\* min(limit, number of items) workers hold an item, and once runPool has
\* ended the worker was invoked once for every item, whether it threw for
\* some of them or not
C27_EveryItemOnce ==
  plPc # "off" =>
    /\ \A n \in 1 .. plItems : plCalls[n] <= 1
    /\ plPc \in {"await", "done"} =>
         Whole(Cardinality(ActiveWorkers)) <= MathMin(plLimit, Whole(plItems))
    /\ plPc \in {"done", "threw"} => \A n \in 1 .. plItems : plCalls[n] = 1

\* no item is given to the worker twice, the workers that hold an item are
\* at most min(limit, number of items), and when runPool is fulfilled the
\* worker was invoked once for every item
OnceWhenFulfilled ==
  plPc # "off" =>
    /\ \A n \in 1 .. plItems : plCalls[n] <= 1
    /\ plPc \in {"await", "done"} =>
         Whole(Cardinality(ActiveWorkers)) <= MathMin(plLimit, Whole(plItems))
    /\ plPc = "done" => \A n \in 1 .. plItems : plCalls[n] = 1

\* runPool is fulfilled with three items and two workers although the
\* worker threw for two of the items
FulfilledDespiteThrows ==
  /\ plPc = "done" /\ plItems = 3 /\ plLimit = Whole(2)
  /\ Cardinality(plLogged) = 2
\* ---------------------------------------------------------------------
\* The compare UI
\* ---------------------------------------------------------------------
\* C29: after a toggle, a card removal or a clear, the sidebar is hidden
\* exactly when nothing is selected, and a row has the class is-compared
\* exactly when the key of its cells is in the selection
C29_SidebarAndMarkers ==
  cmpLast \in {"toggle", "remove", "clear"} =>
    /\ cmpHidden <=> selectedProducts = {}
    /\ \A n \in DOMAIN cmpRows :
         cmpRows[n].compared <=> extractRowData(cmpRows[n]) \in selectedProducts

\* a card was removed and left one product selected: of two rows shown, one
\* is marked and one is not
C29_Witness ==
  /\ cmpLast = "remove" /\ Cardinality(selectedProducts) = 1 /\ ~cmpHidden
  /\ \E n, m \in DOMAIN cmpRows : cmpRows[n].compared /\ ~cmpRows[m].compared
\* ---------------------------------------------------------------------
\* Filters.reset
\* ---------------------------------------------------------------------
\* nothing is selected, and Filters.apply returns every row of the data
NothingSelected ==
  /\ \A k \in FACET_KEYS : fcState.facets[k].values = {}
  /\ fcState.query = "" /\ ~fcState.withImageOnly /\ ~fcState.withoutImageOnly
  /\ apply(fcVersion, fcState, fcData) = Returned(fcData)

\* C30: after Filters.reset(), whatever was selected before, no facet
\* value, query or image toggle is selected and Filters.apply(data) returns
\* every row of data
C30_ResetSelectsNothing == fcLast = "reset" => NothingSelected

\* the same for the Filters of part_001 and part_002
ResetOfLaterVersions ==
  fcLast = "reset" /\ fcVersion # "part_000" => NothingSelected /\ fcVisible = fcData

\* a reset of part_001 or part_002 brought back the two rows a query had
\* hidden
ResetShowsAll ==
  /\ fcLast = "reset" /\ fcVersion # "part_000" /\ Len(fcData) = 2
  /\ fcVisible = fcData
====
